---------------------------- MODULE Spec2Model ----------------------------
(***************************************************************************)
(* Model of the AI news aggregation pipeline of                            *)
(* ai-daily-news/scripts/fetch_ai_daily.py: the aggregator                 *)
(* (merge_and_sort_entries), the four source fetchers and the article      *)
(* generator.                                                              *)
(*                                                                         *)
(* Python values are modelled as follows.                                  *)
(*   dict          a function from key strings to values; a key that is    *)
(*                 absent from the dict is absent from the DOMAIN          *)
(*   list          a sequence                                              *)
(*   Optional list a record [none, items]                                  *)
(*   timestamp str a sequence of naturals (one per fixed-width group of    *)
(*                 characters) compared lexicographically, '' being <<>>   *)
(***************************************************************************)
EXTENDS Integers, Sequences, FiniteSets, TLC

VARIABLES
    hn_entries,        \* the caller's hn list object (contents)
    arxiv_entries,     \* the caller's arxiv list object
    custom_entries,    \* the caller's custom list object, or None
    domestic_entries,  \* the caller's domestic list object, or None
    merge_call,        \* the last call of merge_and_sort_entries: its arguments
    unique_entries,    \* the list that call returned
    fetch_call,        \* the last fetcher call: function, limit, upstream reply
    fetch_ret,         \* what that call did: returned list or raised
    article_call,      \* the last generate_article call: entries, LLM behaviour
    article_ret,       \* what that call did: text, raised, clients, requests
    files,             \* the image files on disk: path -> bytes
    download_call,     \* the last run of a download script: arguments, web
    download_ret,      \* what that run did: exit status, counts, attempts
    main_call,         \* the last run of fetch_ai_daily.py: arguments, world
    main_ret,          \* what that run did: exit status, operations in order
    cli_call,          \* the last run of another script: arguments, environment
    cli_ret            \* what that run did: exit status, network requests

mergeVars == <<hn_entries, arxiv_entries, custom_entries, domestic_entries,
               merge_call, unique_entries>>
fetchVars == <<fetch_call, fetch_ret>>
articleVars == <<article_call, article_ret>>
downloadVars == <<files, download_call, download_ret>>
mainVars == <<main_call, main_ret>>
cliVars == <<cli_call, cli_ret>>
vars == <<hn_entries, arxiv_entries, custom_entries, domestic_entries,
          merge_call, unique_entries, fetch_call, fetch_ret,
          article_call, article_ret, files, download_call, download_ret,
          main_call, main_ret, cli_call, cli_ret>>

(***************************************************************************)
(* Bounds of the model.                                                    *)
(***************************************************************************)
MaxTotal == 3      \* entries over the four input lists of one merge
MaxRecords == 3    \* records in one upstream reply
MaxLimit == 2      \* the limit a fetcher is called with
MaxChunks == 2     \* chunks in one streamed response body
MaxFigures == 6    \* numbered figures on one HTML page

(***************************************************************************)
(* Generic helpers.                                                        *)
(***************************************************************************)
EmptyDict == [k \in {} |-> TRUE]

\* dict.get(key, default)
Get(d, key, default) == IF key \in DOMAIN d THEN d[key] ELSE default

Range(s) == {s[i] : i \in 1..Len(s)}

SeqsUpTo(S, n) == UNION {[1..k -> S] : k \in 0..n}

RECURSIVE StrLess(_, _)
\* a < b for Python str: lexicographic, a proper prefix is smaller
StrLess(a, b) ==
    IF Len(b) = 0 THEN FALSE
    ELSE IF Len(a) = 0 THEN TRUE
    ELSE IF Head(a) < Head(b) THEN TRUE
    ELSE IF Head(a) > Head(b) THEN FALSE
    ELSE StrLess(Tail(a), Tail(b))

(***************************************************************************)
(* merge_and_sort_entries                                                  *)
(***************************************************************************)
NoneList == [none |-> TRUE, items |-> <<>>]
SomeList(s) == [none |-> FALSE, items |-> s]

\* truth value of an Optional[List]: None and [] are falsy
Truthy(o) == ~o.none /\ Len(o.items) > 0

\* the sort key: lambda x: x.get('created_at', '')
SortKey(e) == Get(e, "created_at", <<>>)

\* the dedup key: entry.get('url', '')
UrlKey(e) == Get(e, "url", "")

RECURSIVE InsertDescUnstable(_, _)
\* a sort that is not stable: e goes in front of elements with an equal key
InsertDescUnstable(s, e) ==
    IF s = <<>> THEN <<e>>
    ELSE IF ~StrLess(SortKey(e), SortKey(Head(s))) THEN <<e>> \o s
    ELSE <<Head(s)>> \o InsertDescUnstable(Tail(s), e)

RECURSIVE InsertDesc(_, _)
\* e placed behind every element whose key is >= its own (stable)
InsertDesc(s, e) ==
    IF s = <<>> THEN <<e>>
    ELSE IF StrLess(SortKey(Head(s)), SortKey(e)) THEN <<e>> \o s
    ELSE <<Head(s)>> \o InsertDesc(Tail(s), e)

RECURSIVE InsertAsc(_, _)
InsertAsc(s, e) ==
    IF s = <<>> THEN <<e>>
    ELSE IF StrLess(SortKey(e), SortKey(Head(s))) THEN <<e>> \o s
    ELSE <<Head(s)>> \o InsertAsc(Tail(s), e)

RECURSIVE SortedAsc(_)
\* sorted(all_entries, key=...) with reverse=True forgotten
SortedAsc(s) ==
    IF s = <<>> THEN <<>>
    ELSE InsertAsc(SortedAsc(SubSeq(s, 1, Len(s) - 1)), s[Len(s)])

RECURSIVE SortedDesc(_)
\* sorted(all_entries, key=..., reverse=True): stable, descending
SortedDesc(s) ==
    IF s = <<>> THEN <<>>
    ELSE InsertDesc(SortedDesc(SubSeq(s, 1, Len(s) - 1)), s[Len(s)])

RECURSIVE DedupScanForgetSeen(_, _, _)
\* the loop without seen.add(url)
DedupScanForgetSeen(s, seen, acc) ==
    IF s = <<>> THEN acc
    ELSE IF UrlKey(Head(s)) \notin seen
         THEN DedupScanForgetSeen(Tail(s), seen, Append(acc, Head(s)))
         ELSE DedupScanForgetSeen(Tail(s), seen, acc)

RECURSIVE DedupScan(_, _, _)
\* the loop over sorted_entries with the seen set
DedupScan(s, seen, acc) ==
    IF s = <<>> THEN acc
    ELSE LET entry == Head(s)
             url == UrlKey(entry)
         IN  IF url \notin seen
             THEN DedupScan(Tail(s), seen \cup {url}, Append(acc, entry))
             ELSE DedupScan(Tail(s), seen, acc)

\* a += b instead: the left operand is extended in place
ListAddInPlace(a, b) == [new |-> a \o b, left |-> a \o b]

\* a + b on lists: a new list object, the operands keep their contents
ListAdd(a, b) == [new |-> a \o b, left |-> a]

\* the function with the two steps exchanged: duplicates dropped first, the
\* rest sorted afterwards
merge_dedup_then_sort(hn, arxiv, custom, domestic) ==
    LET all1 == hn \o arxiv
        all2 == IF Truthy(custom) THEN all1 \o custom.items ELSE all1
        all3 == IF Truthy(domestic) THEN all2 \o domestic.items ELSE all2
    IN  [ret |-> SortedDesc(DedupScan(all3, {}, <<>>)),
         hn |-> hn,
         arxiv |-> arxiv,
         custom |-> custom,
         domestic |-> domestic]

\* the whole function: the returned list and the argument lists afterwards
merge_and_sort_entries(hn, arxiv, custom, domestic) ==
    LET add == ListAdd(hn, arxiv)
        all1 == add.new
        all2 == IF Truthy(custom) THEN all1 \o custom.items ELSE all1
        all3 == IF Truthy(domestic) THEN all2 \o domestic.items ELSE all2
        sorted_entries == SortedDesc(all3)
    IN  [ret |-> DedupScan(sorted_entries, {}, <<>>),
         hn |-> add.left,
         arxiv |-> arxiv,
         custom |-> custom,
         domestic |-> domestic]


(***************************************************************************)
(* The source fetchers.  A fetcher call is given its limit and the reply   *)
(* of the upstream service; its body either completes with a list or       *)
(* stops at the first statement that raises, and the function's outermost  *)
(* handler decides what the caller sees.                                   *)
(*                                                                         *)
(* JSON values that may be null are tagged: [t |-> "null"],                *)
(* [t |-> "int", v |-> n], [t |-> "str", v |-> s].                         *)
(* Times are days on the epoch scale; the clock reads UtcNow.              *)
(***************************************************************************)
JNull == [t |-> "null"]
JInt(n) == [t |-> "int", v |-> n]
JStr(x) == [t |-> "str", v |-> x]
JList(s) == [t |-> "list", v |-> s]

\* what requests.get / raise_for_status / response.json() can raise
TransportErrors == {"ConnectionError", "Timeout"}
ReplyFailures == TransportErrors \cup {"HTTPError", "JSONDecodeError"}

CutoffDays == 180
MonthDays == 30
UtcNow == CutoffDays + MonthDays

\* datetime.strftime("%Y-%m-%d %H:%M:%S")
Strftime(day) == [fmt |-> "%Y-%m-%d %H:%M:%S", day |-> day]

Completed(entries) == [exc |-> "none", entries |-> entries]
Raises(exc) == [exc |-> exc, entries |-> <<>>]

\* a handler that names only the requests exceptions
ExceptRequestException(exc) == exc \in TransportErrors \cup {"HTTPError"}

\* `except Exception`: every exception the body can raise is one
ExceptException(exc) == TRUE

\* try: <body> except Exception as e: print(...); return []
TryReturnEmpty(body) ==
    IF body.exc = "none" THEN [raised |-> FALSE, entries |-> body.entries]
    ELSE IF ExceptException(body.exc) THEN [raised |-> FALSE, entries |-> <<>>]
    ELSE [raised |-> TRUE, entries |-> <<>>]

Take(s, n) == SubSeq(s, 1, IF Len(s) < n THEN Len(s) ELSE n)

(***************************************************************************)
(* fetch_hacker_news                                                       *)
(***************************************************************************)
\* x.get("points", 0)
PointsKey(hit) == Get(hit, "points", JInt(0))

RECURSIVE InsertByPoints(_, _)
InsertByPoints(s, h) ==
    IF s = <<>> THEN <<h>>
    ELSE IF PointsKey(Head(s)).v < PointsKey(h).v THEN <<h>> \o s
    ELSE <<Head(s)>> \o InsertByPoints(Tail(s), h)

RECURSIVE SortByPoints(_)
SortByPoints(s) ==
    IF s = <<>> THEN <<>>
    ELSE InsertByPoints(SortByPoints(SubSeq(s, 1, Len(s) - 1)), s[Len(s)])

\* sorted(hits, key=lambda x: x.get("points", 0), reverse=True): comparing
\* None with anything is a TypeError, and two or more hits are compared
SortHitsRaises(hits) ==
    Len(hits) >= 2 /\ \E i \in 1..Len(hits) : PointsKey(hits[i]) = JNull

\* hit.get("url", f"https://news.ycombinator.com/item?id={hit.get('objectID')}")
HitUrl(hit) ==
    Get(hit, "url", "https://news.ycombinator.com/item?id=" \o Get(hit, "objectID", "None"))

HnEntry(hit, created_at) ==
    [title |-> Get(hit, "title", "No title"),
     url |-> HitUrl(hit),
     summary |-> PointsKey(hit),
     points |-> PointsKey(hit),
     created_at |-> Strftime(created_at),
     source |-> "hacker_news",
     type |-> "news",
     image |-> Get(hit, "og_image", "None")]

RECURSIVE HnLoop(_, _, _, _)
\* for hit in hits_sorted: ... entries.append(...); if len(entries) >= limit: break
HnLoop(hits, limit, seen_urls, entries) ==
    IF hits = <<>> THEN entries
    ELSE LET hit == Head(hits)
             url == HitUrl(hit)
             created_timestamp == Get(hit, "created_at_i", 0)
         IN  IF url \in seen_urls
             THEN HnLoop(Tail(hits), limit, seen_urls, entries)
             ELSE IF created_timestamp # 0 /\ created_timestamp < UtcNow - CutoffDays
             THEN HnLoop(Tail(hits), limit, seen_urls \cup {url}, entries)
             ELSE LET grown == Append(entries, HnEntry(hit,
                                  IF created_timestamp # 0 THEN created_timestamp
                                  ELSE UtcNow))
                  IN  IF Len(grown) >= limit THEN grown
                      ELSE HnLoop(Tail(hits), limit, seen_urls \cup {url}, grown)

\* the body of the try block
HnBody(limit, reply) ==
    IF reply.status # "ok" THEN Raises(reply.status)
    ELSE IF SortHitsRaises(reply.hits) THEN Raises("TypeError")
    ELSE Completed(HnLoop(SortByPoints(reply.hits), limit, {}, <<>>))

fetch_hacker_news(limit, reply) == TryReturnEmpty(HnBody(limit, reply))


(***************************************************************************)
(* fetch_arxiv_papers                                                      *)
(* A date string is [text, day] when it has the expected format and        *)
(* [text] when strptime rejects it.                                        *)
(***************************************************************************)
ArxivMaxResults == 20
SummaryMax == 300

\* entry.get("id", "").split("/abs/")[-1].split("/v")[0]: what follows
\* "/abs/"; the version suffix "v1" holds no "/v" and stays
ArxivId(entry) ==
    IF "id" \in DOMAIN entry THEN entry["id"].ident \o entry["id"].version ELSE ""

\* strptime(published, "%Y-%m-%dT%H:%M:%SZ") with both except branches
PubDate(entry) ==
    IF "published" \in DOMAIN entry /\ "day" \in DOMAIN entry["published"]
    THEN entry["published"].day
    ELSE UtcNow

\* summary[:300] + "..." if len(summary) > 300 else summary
ArxivSummary(summary) ==
    IF summary.len > SummaryMax
    THEN [text |-> summary.text, len |-> SummaryMax + 3, cut |-> TRUE]
    ELSE summary

\* extract_arxiv_images(arxiv_id): the images found on the paper's HTML
\* page; [] when the page cannot be fetched (its own try/except)
ExtractedImages(entry) == Get(entry, "html_images", <<>>)

ArxivEntry(entry) ==
    [title |-> Get(entry, "title", ""),
     url |-> "https://arxiv.org/abs/" \o ArxivId(entry),
     arxiv_id |-> ArxivId(entry),
     summary |-> ArxivSummary(Get(entry, "summary", [text |-> "", len |-> 0])),
     authors |-> Get(entry, "authors", ""),
     published |-> [fmt |-> "%Y-%m-%d", day |-> PubDate(entry)],
     source |-> "arxiv",
     type |-> "paper",
     images |-> ExtractedImages(entry)]

RECURSIVE ArxivLoopAnyDate(_, _, _, _, _)
\* the loop without its date filter
ArxivLoopAnyDate(feed, limit, target_date, seen_ids, entries) ==
    IF feed = <<>> THEN entries
    ELSE LET entry == Head(feed)
             arxiv_id == ArxivId(entry)
             seen == seen_ids \cup {arxiv_id}
         IN  IF arxiv_id \in seen_ids
             THEN ArxivLoopAnyDate(Tail(feed), limit, target_date, seen_ids, entries)
             ELSE LET grown == Append(entries, ArxivEntry(entry))
                  IN  IF Len(grown) >= limit THEN grown
                      ELSE ArxivLoopAnyDate(Tail(feed), limit, target_date, seen, grown)

RECURSIVE ArxivLoop(_, _, _, _, _)
\* for entry in feed.entries[:max_results]: ...
ArxivLoop(feed, limit, target_date, seen_ids, entries) ==
    IF feed = <<>> THEN entries
    ELSE LET entry == Head(feed)
             arxiv_id == ArxivId(entry)
             pub_date == PubDate(entry)
             seen == seen_ids \cup {arxiv_id}
         IN  IF arxiv_id \in seen_ids
             THEN ArxivLoop(Tail(feed), limit, target_date, seen_ids, entries)
             ELSE IF target_date.given /\ "day" \notin DOMAIN target_date
             THEN <<>>   \* except ValueError: return []
             ELSE IF target_date.given /\ pub_date # target_date.day
             THEN ArxivLoop(Tail(feed), limit, target_date, seen, entries)
             ELSE IF ~target_date.given /\ pub_date < UtcNow - MonthDays
             THEN ArxivLoop(Tail(feed), limit, target_date, seen, entries)
             ELSE LET grown == Append(entries, ArxivEntry(entry))
                  IN  IF Len(grown) >= limit THEN grown
                      ELSE ArxivLoop(Tail(feed), limit, target_date, seen, grown)

\* the body of the try block; feedparser.parse does not raise, a payload
\* that is no feed has no entries
ArxivBody(limit, target_date, reply) ==
    IF reply.status \in TransportErrors \cup {"HTTPError"} THEN Raises(reply.status)
    ELSE IF reply.status # "ok" THEN Completed(<<>>)
    ELSE Completed(ArxivLoop(Take(reply.feed, ArxivMaxResults), limit,
                             target_date, {}, <<>>))

fetch_arxiv_papers(limit, target_date, reply) ==
    TryReturnEmpty(ArxivBody(limit, target_date, reply))


(***************************************************************************)
(* fetch_custom_news_source                                                *)
(* The reply body is a feed (feedparser finds entries), JSON, or neither.  *)
(* A JSON item is an object [t |-> "obj", fields |-> dict] or another JSON *)
(* value, and its fields are tagged JSON values.  A string that holds a    *)
(* date is [t, v, day] when one of the four strptime formats matches it    *)
(* and [t, v] when none does.                                              *)
(***************************************************************************)
RECURSIVE FirstTruthy(_, _, _)
\* item.get(k1) or item.get(k2) or ... or default
FirstTruthy(item, keys, default) ==
    IF keys = <<>> THEN default
    ELSE IF Head(keys) \in DOMAIN item /\ item[Head(keys)] \notin {JStr(""), JNull, JInt(0)}
         THEN item[Head(keys)]
         ELSE FirstTruthy(item, Tail(keys), default)

\* an entry of the RSS/Atom branch
RssEntry(entry, source_name) ==
    [title |-> Get(entry, "title", ""),
     url |-> Get(entry, "link", ""),
     summary |-> Get(entry, "summary", Get(entry, "description", "")),
     source |-> source_name,
     type |-> "news",
     image |-> Get(entry, "enclosure_image", "None"),
     created_at |-> Strftime(UtcNow)]

\* for entry in feed.entries[:limit]: entries.append(...)
RssLoop(feed, limit, source_name) ==
    [i \in 1..Len(Take(feed, limit)) |-> RssEntry(feed[i], source_name)]

\* the items list picked out of the decoded JSON
JsonItems(data) ==
    IF data.shape = "dict" /\ data.key \in {"data", "items", "results", "articles"}
       /\ data.is_list
    THEN data.items
    ELSE <<>>

\* pub_time after the date block of one item; pub_time is a local of the
\* function, so it keeps the previous item's value when no format matches
PubTimeAfter(published, pub_time) ==
    IF published.t = "str"
    THEN IF "day" \in DOMAIN published
         THEN [bound |-> TRUE, val |-> [t |-> "datetime", day |-> published.day]]
         ELSE pub_time
    ELSE [bound |-> TRUE, val |-> published]

JsonEntry(fields, pub_time, source_name) ==
    [title |-> FirstTruthy(fields, <<"title", "name", "headline">>, JStr("")),
     url |-> FirstTruthy(fields, <<"url", "link", "href", "sourceUrl">>, JStr("")),
     summary |-> FirstTruthy(fields, <<"summary", "description", "content", "abstract">>,
                             JStr("")),
     source |-> source_name,
     type |-> "news",
     image |-> FirstTruthy(fields, <<"image", "imageUrl", "thumbnail", "imgUrl">>, JStr("")),
     created_at |->
        IF pub_time.val.t = "datetime" THEN Strftime(pub_time.val.day)
        ELSE Strftime(UtcNow)]

RECURSIVE JsonLoop(_, _, _, _)
\* for item in items[:limit]: ...; the loop stops at the first statement that
\* raises
JsonLoop(items, pub_time, source_name, entries) ==
    IF items = <<>> THEN Completed(entries)
    ELSE LET item == Head(items) IN
         IF item.t # "obj" THEN Raises("AttributeError")   \* item.get
         ELSE LET published ==
                      FirstTruthy(item.fields,
                          <<"published", "publish_time", "created_at", "pubDate", "date">>,
                          JNull)
                  after == PubTimeAfter(published, pub_time)
              IN  IF ~after.bound THEN Raises("UnboundLocalError")
                  ELSE IF after.val.t = "int" /\ after.val # JInt(0)
                  THEN Raises("AttributeError")   \* int has no strftime
                  ELSE JsonLoop(Tail(items), after, source_name,
                                Append(entries,
                                       JsonEntry(item.fields, after, source_name)))

\* the body of the outer try block
CustomBody(source_name, limit, reply) ==
    IF reply.status \in TransportErrors \cup {"HTTPError"} THEN Raises(reply.status)
    ELSE IF reply.status # "ok" THEN Completed(<<>>)
    ELSE IF reply.body.kind = "feed"
    THEN Completed(RssLoop(reply.body.entries, limit, source_name))
    ELSE IF reply.body.kind = "json"
    THEN JsonLoop(Take(JsonItems(reply.body.data), limit),
                  [bound |-> FALSE], source_name, <<>>)
    ELSE Completed(<<>>)   \* except json.JSONDecodeError: return []

fetch_custom_news_source(source_name, limit, reply) ==
    TryReturnEmpty(CustomBody(source_name, limit, reply))


(***************************************************************************)
(* fetch_domestic_news                                                     *)
(* A URL or link target is [scheme, netloc, rooted, path]: "/p/1" is       *)
(* ["", "", TRUE, <<"p", "1">>], "p/2" is ["", "", FALSE, <<"p", "2">>],    *)
(* and a trailing "/" is a last empty segment.  A link title is            *)
(* [text, len, words]: its length and the keywords it contains.            *)
(***************************************************************************)
Url(scheme, netloc, rooted, path) ==
    [scheme |-> scheme, netloc |-> netloc, rooted |-> rooted, path |-> path]

PREDEFINED_SOURCES ==
    [s \in {"36kr-ai", "sina-tech", "zhihu-daily"} |->
        CASE s = "36kr-ai" ->
                [name |-> "36kr AI",
                 url |-> Url("https", "36kr.com", TRUE, <<"information", "AI", "">>)]
          [] s = "sina-tech" ->
                [name |-> "sina tech",
                 url |-> Url("https", "tech.sina.com.cn", TRUE, <<"">>)]
          [] s = "zhihu-daily" ->
                [name |-> "zhihu daily",
                 url |-> Url("https", "daily.zhihu.com", TRUE, <<"">>)]]

\* file names that begin with the letters "http" without being URLs
HttpLikeNames == {"http-status.html", "https-everywhere.png"}

\* href.startswith('http') on the text of the link target
StartsWithHttp(ref) ==
    \/ ref.scheme \in {"http", "https"}
    \/ /\ ref.scheme = ""
       /\ ref.netloc = ""
       /\ ~ref.rooted
       /\ ref.path # <<>>
       /\ ref.path[1] \in HttpLikeNames

\* urllib.parse.urljoin(base, ref), for targets without dot segments
urljoin(base, ref) ==
    IF ref.scheme # "" THEN ref
    ELSE IF ref.netloc # "" THEN Url(base.scheme, ref.netloc, ref.rooted, ref.path)
    ELSE IF ref.path = <<>> THEN base
    ELSE IF ref.rooted THEN Url(base.scheme, base.netloc, TRUE, ref.path)
    ELSE Url(base.scheme, base.netloc, TRUE,
             SubSeq(base.path, 1, Len(base.path) - 1) \o ref.path)

TitleMinLen == 10
TitleMaxLen == 100
\* the keyword lists; the Chinese keywords are written in pinyin
AiKeywords ==
    {"AI", "rengong zhineng", "jiqi xuexi", "shendu xuexi", "LLM", "da moxing",
     "zhineng", "ChatGPT", "GPT"}
SkipKeywords ==
    {"denglu", "zhuce", "shouye", "guanyu", "lianxi", "youqing lianjie",
     "guanggao", "hezuo", "zhaopin"}

\* the three `continue` filters on the title and the empty href
LinkRejected(href, title) ==
    \/ title.len < TitleMinLen
    \/ title.len > TitleMaxLen
    \/ href.text_empty
    \/ title.words \cap SkipKeywords # {}
    \/ title.words \cap AiKeywords = {}

DomesticEntry(title, href, source_name) ==
    [title |-> title.text,
     url |-> href,
     summary |-> "",
     source |-> source_name,
     type |-> "news",
     image |-> "",
     created_at |-> Strftime(UtcNow)]

RECURSIVE DomesticLoop(_, _, _, _, _, _)
\* for link in soup.find_all('a', href=True): ...
DomesticLoop(links, limit, source, seen_urls, link_count, entries) ==
    IF links = <<>> \/ link_count >= limit * 3 THEN entries
    ELSE LET href == Head(links).href
             title == Head(links).title
         IN  IF LinkRejected(href, title)
             THEN DomesticLoop(Tail(links), limit, source, seen_urls, link_count, entries)
             ELSE IF href \in seen_urls
             THEN DomesticLoop(Tail(links), limit, source, seen_urls, link_count, entries)
             ELSE LET joined == IF ~StartsWithHttp(href.ref)
                                THEN urljoin(source.url, href.ref)
                                ELSE href.ref
                      grown == Append(entries, DomesticEntry(title, joined, source.name))
                  IN  IF Len(grown) >= limit THEN grown
                      ELSE DomesticLoop(Tail(links), limit, source,
                                        seen_urls \cup {href}, link_count + 1, grown)

\* the body of the try block; BeautifulSoup parses any text
DomesticBody(source, limit, reply) ==
    IF reply.status \in TransportErrors \cup {"HTTPError"} THEN Raises(reply.status)
    ELSE IF reply.status # "ok" THEN Completed(<<>>)
    ELSE Completed(DomesticLoop(reply.links, limit, source, {}, 0, <<>>))

fetch_domestic_news(source_key, limit, reply) ==
    IF source_key \notin DOMAIN PREDEFINED_SOURCES
    THEN [raised |-> FALSE, entries |-> <<>>]
    ELSE TryReturnEmpty(DomesticBody(PREDEFINED_SOURCES[source_key], limit, reply))


(***************************************************************************)
(* generate_article                                                        *)
(* Entry fields are tagged JSON values.  A text is a sequence of parts;    *)
(* the Chinese literals of the source are given in English.  JSON text is  *)
(* a sequence of objects, each a sequence of [key, literal] members.       *)
(***************************************************************************)
DEFAULT_MODEL == "doubao-seed-1-8-251228"

NothingFoundMessage == <<"No AI-related hot content was found today.">>
FallbackHeading == "Article generation hit an error, here is the raw data:"
SystemMessage ==
    "You are a professional AI commentator who analyses trends and writes in-depth articles."

\* the key order of the entry literals the fetchers build
EntryKeyOrder ==
    <<"title", "url", "arxiv_id", "summary", "points", "authors", "published",
      "created_at", "source", "type", "image", "images">>

\* how json.dumps writes one value
JsonLiteral(v) ==
    CASE v.t = "null" -> [lit |-> "null"]
      [] v.t = "int" -> [lit |-> "number", digits |-> ToString(v.v)]
      [] v.t = "str" -> [lit |-> "string", chars |-> v.v]
      [] v.t = "list" -> [lit |-> "array", items |-> v.v]

RECURSIVE JsonMembers(_, _)
JsonMembers(entry, keys) ==
    IF keys = <<>> THEN <<>>
    ELSE IF Head(keys) \in DOMAIN entry
         THEN <<[key |-> Head(keys), literal |-> JsonLiteral(entry[Head(keys)])]>>
                  \o JsonMembers(entry, Tail(keys))
         ELSE JsonMembers(entry, Tail(keys))

\* json.dumps(entries, indent=2, ensure_ascii=False)
JsonDumps(entries) ==
    [i \in 1..Len(entries) |-> JsonMembers(entries[i], EntryKeyOrder)]

\* the handler's return value with the data left out
ArticleFallbackHeadingOnly(entries) ==
    [kind |-> "fallback", parts |-> <<FallbackHeading>>, json |-> <<>>]

\* f"...{json.dumps(entries, indent=2, ensure_ascii=False)}"
ArticleFallback(entries) ==
    [kind |-> "fallback", parts |-> <<FallbackHeading, "json">>,
     json |-> JsonDumps(entries)]

TypeIs(e, ty) == "type" \in DOMAIN e /\ e["type"] = JStr(ty)

\* the f-string reads n['title'], n['summary'], n['source'] of every news
\* item and p['title'], p['summary'], p['authors'] of every paper: a missing
\* key is a KeyError, raised before the try block
PromptRaises(entries) ==
    \E i \in 1..Len(entries) :
        \/ TypeIs(entries[i], "news")
              /\ ~({"title", "summary", "source"} \subseteq DOMAIN entries[i])
        \/ TypeIs(entries[i], "paper")
              /\ ~({"title", "summary", "authors"} \subseteq DOMAIN entries[i])

Prompt(entries, date) ==
    LET news_items == SelectSeq(entries, LAMBDA e : TypeIs(e, "news"))
        papers == SelectSeq(entries, LAMBDA e : TypeIs(e, "paper"))
    IN  [date_str |-> IF date = "None" THEN "today" ELSE date,
         news |-> [i \in 1..Len(news_items) |->
                      [title |-> news_items[i]["title"],
                       summary |-> news_items[i]["summary"],
                       source |-> news_items[i]["source"]]],
         papers |-> [i \in 1..Len(papers) |->
                      [title |-> papers[i]["title"],
                       summary |-> papers[i]["summary"],
                       authors |-> papers[i]["authors"]]]]

\* client.chat.completions.create(...)
CompletionRequest(model, prompt) ==
    [model |-> model,
     messages |-> <<[role |-> "system", content |-> SystemMessage],
                    [role |-> "user", content |-> prompt]>>,
     temperature |-> "0.7",
     max_tokens |-> 2000]

\* what the statements after the request do with the endpoint's answer:
\* response.choices[0].message.content, then len(article)
AfterRequest(llm) ==
    IF llm.outcome # "ok" THEN llm.outcome          \* create() raised it
    ELSE IF llm.choices = "missing" THEN "TypeError" \* None[0]
    ELSE IF llm.choices = "empty" THEN "IndexError"
    ELSE IF llm.content = JNull THEN "TypeError"     \* len(None)
    ELSE "none"

\* the whole function: the value returned or the exception let out, the
\* clients constructed and the requests issued
\* `if not entries` run after the client is built
EmptyCheckAfterClient(entries) == FALSE

\* if not entries: return the fixed message
EmptyCheck(entries) == entries = <<>>

\* client_kwargs: base_url is added only when given
ClientKwargs(base_url) ==
    IF base_url = "None" THEN [api_key |-> "dummy"]
    ELSE [api_key |-> "dummy", base_url |-> base_url]

\* a second create() when the first one failed
CreateCallsWithRetry(request, exc) ==
    IF exc = "none" THEN <<request>> ELSE <<request, request>>

\* the try block holds one create() call, in no loop, and the handler makes
\* none
CreateCalls(request, exc) == <<request>>

generate_article(entries, model, base_url, date, llm) ==
    IF EmptyCheck(entries)
    THEN [raised |-> "none", text |-> [kind |-> "fixed", parts |-> NothingFoundMessage],
          clients |-> <<>>, requests |-> <<>>]
    ELSE IF PromptRaises(entries)
    THEN [raised |-> "KeyError", text |-> [kind |-> "none"],
          clients |-> <<>>, requests |-> <<>>]
    ELSE LET client == ClientKwargs(base_url)
             request == CompletionRequest(model, Prompt(entries, date))
             exc == AfterRequest(llm)
         IN  [raised |-> "none",
              text |-> IF exc = "none"
                       THEN [kind |-> "article", parts |-> <<llm.content.v>>]
                       ELSE IF ExceptException(exc) THEN ArticleFallback(entries)
                       ELSE [kind |-> "none"],
              clients |-> <<client>>,
              requests |-> CreateCalls(request, exc)]


(***************************************************************************)
(* download_image (download_image.py)                                      *)
(* A header text is a sequence of tokens, a body a sequence of chunks, a   *)
(* chunk and a file a sequence of bytes.  The file system is a dict from   *)
(* path to file content.  The exception messages are given in English.     *)
(***************************************************************************)
MaxImageBytes == 10 * 1024 * 1024

\* str.startswith(prefix)
StartsWith(text, prefix) ==
    Len(text) >= Len(prefix) /\ SubSeq(text, 1, Len(prefix)) = prefix

\* the content-type test left out
ContentTypeUnchecked(content_type) == TRUE

\* content_type.startswith('image/')
ContentTypeIsImage(content_type) == StartsWith(content_type, <<"image", "/">>)

\* the length test with >=
TooLargeFromLimit(content_length) == content_length >= MaxImageBytes

\* content_length > 10 * 1024 * 1024
TooLarge(content_length) == content_length > MaxImageBytes

\* the size test left out
FileNeverEmpty(file_size) == FALSE

\* file_size == 0
FileIsEmpty(file_size) == file_size = 0

\* open(output_path, 'wb'): the file is created, or truncated if it exists
OpenForWrite(fs, path) ==
    [p \in DOMAIN fs \cup {path} |-> IF p = path THEN <<>> ELSE fs[p]]

RECURSIVE WriteChunks(_, _)
\* for chunk in response.iter_content(...): if chunk: f.write(chunk)
WriteChunks(chunks, written) ==
    IF chunks = <<>> THEN written
    ELSE WriteChunks(Tail(chunks),
                     IF Head(chunks) # <<>> THEN written \o Head(chunks) ELSE written)

\* one outcome of download_image: the exception raised ("none" when it
\* returns), the statement it came from, the value returned, the file system
\* afterwards and the number of body chunks read
DownloadOutcome(raised, at, value, fs, chunks_read) ==
    [raised |-> raised, at |-> at, value |-> value, files |-> fs,
     chunks_read |-> chunks_read]

download_image(url, output_path, response, fs) ==
    IF response.outcome = "Timeout"
    THEN DownloadOutcome("download timed out", "request", <<>>, fs, 0)
    ELSE IF response.outcome = "ConnectionError"
    THEN DownloadOutcome("download failed", "request", <<>>, fs, 0)
    ELSE IF response.status >= 400
    THEN DownloadOutcome("download failed", "status", <<>>, fs, 0)
    ELSE IF ~ContentTypeIsImage(Get(response.headers, "content-type", <<>>))
    THEN DownloadOutcome("save failed", "content-type", <<>>, fs, 0)
    ELSE IF ~Get(response.headers, "content-length", [digits |-> TRUE, n |-> 0]).digits
    THEN DownloadOutcome("save failed", "content-length", <<>>, fs, 0)  \* int() raises
    ELSE IF TooLarge(Get(response.headers, "content-length", [digits |-> TRUE, n |-> 0]).n)
    THEN DownloadOutcome("save failed", "content-length", <<>>, fs, 0)
    ELSE LET opened == OpenForWrite(fs, output_path)
             content == WriteChunks(response.body.chunks, <<>>)
             written == [opened EXCEPT ![output_path] = content]
             chunks_read == Len(response.body.chunks)
         IN  IF response.body.broken
             THEN DownloadOutcome("download failed", "write", <<>>, written, chunks_read)
             ELSE IF FileIsEmpty(Len(written[output_path]))
             THEN DownloadOutcome("save failed", "size", <<>>, written, chunks_read)
             ELSE DownloadOutcome("none", "return", <<output_path>>, written, chunks_read)


(***************************************************************************)
(* download_images_from_data (download_batch_images.py)                    *)
(* An image URL is a record [stem, ext]: the text before its extension and *)
(* the extension os.path.splitext finds.  The web is a dict from URL to    *)
(* the response a request for it gets.                                     *)
(***************************************************************************)
ImageUrl(stem, ext) == [stem |-> stem, ext |-> ext]

\* the empty string where a URL is expected
EmptyUrl == ImageUrl("", "")

\* os.path.join(output_dir, f"{idx:02d}_{img_idx}{ext}")
ImagePath(dir, idx, img_idx, ext) ==
    [dir |-> dir, idx |-> idx, img_idx |-> img_idx, ext |-> ext]

\* os.path.splitext(img_url)[1], ".png" when it is empty
Extension(img_url) == IF img_url.ext = "" THEN ".png" ELSE img_url.ext

\* image_urls of one entry: entry.get("image") if truthy, then
\* entry.get("images", []) if truthy
EntryImageUrls(entry) ==
    LET image == Get(entry, "image", JNull)
        images == Get(entry, "images", JList(<<>>))
    IN  (IF image \notin {JNull, JStr(EmptyUrl)} THEN <<image.v>> ELSE <<>>)
            \o (IF images.v # <<>> THEN images.v ELSE <<>>)

\* a failed download after which the loop stops
BatchAbortsOnFailure(failed) == failed

\* the except clause is inside the loop over image_urls: the loop goes on
BatchAborts(failed) == FALSE

RECURSIVE ImageLoop(_, _, _, _, _, _)
\* for img_idx, img_url in enumerate(image_urls, 1): try ... except Exception
ImageLoop(image_urls, idx, img_idx, output_dir, web, st) ==
    IF image_urls = <<>> \/ st.aborted THEN st
    ELSE LET img_url == Head(image_urls)
             output_path == ImagePath(output_dir, idx, img_idx, Extension(img_url))
             r == download_image(img_url, output_path, web[img_url], st.files)
             ok == r.raised = "none"
         IN  ImageLoop(Tail(image_urls), idx, img_idx + 1, output_dir, web,
                 [success_count |-> st.success_count + (IF ok THEN 1 ELSE 0),
                  fail_count |-> st.fail_count + (IF ok THEN 0 ELSE 1),
                  attempts |-> Append(st.attempts,
                                  [idx |-> idx, img_idx |-> img_idx, url |-> img_url,
                                   output_path |-> output_path]),
                  files |-> r.files,
                  aborted |-> BatchAborts(~ok)])

RECURSIVE EntryLoop(_, _, _, _, _)
\* for idx, entry in enumerate(entries, 1)
EntryLoop(entries, idx, output_dir, web, st) ==
    IF entries = <<>> \/ st.aborted THEN st
    ELSE EntryLoop(Tail(entries), idx + 1, output_dir, web,
             ImageLoop(EntryImageUrls(Head(entries)), idx, 1, output_dir, web, st))

download_images_from_data(data, output_dir, web, fs) ==
    EntryLoop(data.entries, 1, output_dir, web,
              [success_count |-> 0, fail_count |-> 0, attempts |-> <<>>,
               files |-> fs, aborted |-> FALSE])


(***************************************************************************)
(* main (fetch_ai_daily.py)                                                *)
(* A run is given its arguments and the world it meets: per source the     *)
(* upstream reply with the entries the fetcher builds from it, the         *)
(* response to each image request and the behaviour of the LLM endpoint.   *)
(* It yields the operations it performs, in order, the file system         *)
(* afterwards and its exit status.  A path is a sequence of tokens.  In    *)
(* an entry, url and created_at are as merge_and_sort_entries reads them,  *)
(* the other fields are tagged JSON values.                                *)
(***************************************************************************)
\* a fetcher that lets the failure of its upstream call out
FetcherPropagates(reply) ==
    IF reply.status \in ReplyFailures THEN [raised |-> TRUE, entries |-> <<>>]
    ELSE [raised |-> FALSE, entries |-> reply.entries]

\* what a fetcher hands to main for an upstream reply: its outermost handler
\* turns every failure of the upstream call into []
FetcherReturns(reply) ==
    IF reply.status \in ReplyFailures THEN TryReturnEmpty(Raises(reply.status))
    ELSE TryReturnEmpty(Completed(reply.entries))

\* an entry as json.dump and generate_article see it
AsJson(entry) ==
    [k \in DOMAIN entry |->
        IF k \in {"url", "created_at"} THEN JStr(entry[k]) ELSE entry[k]]

AsJsonList(entries) == [i \in 1..Len(entries) |-> AsJson(entries[i])]

\* str.replace(old, new): every occurrence is replaced
Replace(path, old, new) ==
    [i \in 1..Len(path) |-> IF path[i] = old THEN new ELSE path[i]]

\* open(path, 'w') ... write: the file is created or its content replaced
WriteFile(fs, path, content) ==
    [q \in DOMAIN fs \cup {path} |-> IF q = path THEN content ELSE fs[q]]

\* the dict main hands to json.dump, as the text written
OutputDocument(all_entries, date) ==
    [date |-> IF date = "None" THEN "today" ELSE date,
     generated_at |-> "now",
     entries |-> JsonDumps(AsJsonList(all_entries)),
     stats |-> [total |-> Len(all_entries),
                news |-> Len(SelectSeq(AsJsonList(all_entries),
                                       LAMBDA e : TypeIs(e, "news"))),
                papers |-> Len(SelectSeq(AsJsonList(all_entries),
                                         LAMBDA e : TypeIs(e, "paper")))]]

\* one image request of the --download-images step: requests.get, and for
\* status 200 the file write; every exception is swallowed
MainImageStep(st, entry, image_url, suffix, args, world) ==
    LET resp == world.images[image_url]
        ext == IF image_url.ext = "" THEN ".jpg" ELSE image_url.ext
        filepath == <<args.image_output_dir, "/", entry["source"].v, "_",
                      entry["type"].v, "_0" \o suffix, ext>>
        got == Append(st.ops, [op |-> "image_get", url |-> image_url])
    IN  IF resp.outcome = "ok" /\ resp.status = 200
        THEN [ops |-> Append(got, [op |-> "write_image", path |-> filepath]),
              files |-> WriteFile(st.files, filepath, resp.content),
              image_count |-> st.image_count + 1]
        ELSE [st EXCEPT !.ops = got]

RECURSIVE MainImagesOfEntry(_, _, _, _, _, _)
\* for i, image_url in enumerate(images)
MainImagesOfEntry(st, entry, images, i, args, world) ==
    IF images = <<>> THEN st
    ELSE MainImagesOfEntry(
             MainImageStep(st, entry, Head(images), ToString(i + 1), args, world),
             entry, Tail(images), i + 1, args, world)

RECURSIVE MainImageLoopBackwards(_, _, _, _)
\* the loop taking the entries from the last to the first
MainImageLoopBackwards(st, entries, args, world) ==
    IF entries = <<>> THEN st
    ELSE LET entry == entries[Len(entries)]
             image == Get(entry, "image", JNull)
             images == Get(entry, "images", JList(<<>>))
             st1 == IF image \notin {JNull, JStr(EmptyUrl)}
                    THEN MainImageStep(st, entry, image.v, "", args, world)
                    ELSE st
         IN  MainImageLoopBackwards(
                 MainImagesOfEntry(st1, entry, images.v, 0, args, world),
                 SubSeq(entries, 1, Len(entries) - 1), args, world)

RECURSIVE MainImageLoop(_, _, _, _)
\* for entry in all_entries: the single image, then the images list
MainImageLoop(st, entries, args, world) ==
    IF entries = <<>> THEN st
    ELSE LET entry == Head(entries)
             image == Get(entry, "image", JNull)
             images == Get(entry, "images", JList(<<>>))
             st1 == IF image \notin {JNull, JStr(EmptyUrl)}
                    THEN MainImageStep(st, entry, image.v, "", args, world)
                    ELSE st
         IN  MainImageLoop(MainImagesOfEntry(st1, entry, images.v, 0, args, world),
                           Tail(entries), args, world)

\* the directory part of a path: the tokens before its last "/"
Dirname(path) ==
    LET slashes == {i \in 1..Len(path) : path[i] = "/"}
    IN  IF slashes = {} THEN <<>>
        ELSE SubSeq(path, 1, (CHOOSE i \in slashes : \A j \in slashes : j <= i) - 1)

\* open(path, 'w') raises FileNotFoundError when the directory of the path
\* does not exist; the directory of --output exists, the JSON document
\* having been written there
OpenRaises(path, output) == Dirname(path) \notin {<<>>, Dirname(output)}

\* article_file = args.output.replace('.json', '_article.md')
ArticleFile(output) == Replace(output, ".json", "_article.md")

main(args, world, fs) ==
    LET hn == IF ~args.no_hacker_news THEN FetcherReturns(world.hn)
              ELSE [raised |-> FALSE, entries |-> <<>>]
        arxiv == IF ~args.no_arxiv THEN FetcherReturns(world.arxiv)
                 ELSE [raised |-> FALSE, entries |-> <<>>]
        custom == IF args.custom_url THEN FetcherReturns(world.custom)
                  ELSE [raised |-> FALSE, entries |-> <<>>]
        domestic == IF args.domestic_source THEN FetcherReturns(world.domestic)
                    ELSE [raised |-> FALSE, entries |-> <<>>]
        fetch_ops ==
            (IF ~args.no_hacker_news THEN <<[op |-> "fetch", source |-> "hacker_news"]>>
             ELSE <<>>)
            \o (IF ~args.no_arxiv /\ ~hn.raised
                THEN <<[op |-> "fetch", source |-> "arxiv"]>> ELSE <<>>)
            \o (IF args.custom_url /\ ~hn.raised /\ ~arxiv.raised
                THEN <<[op |-> "fetch", source |-> "custom"]>> ELSE <<>>)
            \o (IF args.domestic_source /\ ~hn.raised /\ ~arxiv.raised /\ ~custom.raised
                THEN <<[op |-> "fetch", source |-> "domestic"]>> ELSE <<>>)
    IN  IF hn.raised \/ arxiv.raised \/ custom.raised \/ domestic.raised
        THEN [exit_status |-> 1, ops |-> fetch_ops, files |-> fs]
        ELSE
        LET all_entries ==
                merge_and_sort_entries(hn.entries, arxiv.entries,
                                       SomeList(custom.entries),
                                       SomeList(domestic.entries)).ret
            merged == [ops |-> Append(fetch_ops, [op |-> "merge"]),
                       files |-> fs, image_count |-> 0]
            looped == MainImageLoop(merged, all_entries, args, world)
            imaged == IF args.download_images
                      THEN [looped EXCEPT !.ops =
                                Append(@, [op |-> "print_image_count",
                                           n |-> looped.image_count])]
                      ELSE merged
            document == OutputDocument(all_entries, args.date)
            dumped == [ops |-> Append(imaged.ops,
                                  [op |-> "write_json", path |-> args.output,
                                   content |-> document]),
                       files |-> WriteFile(imaged.files, args.output,
                                           [kind |-> "json", json |-> document])]
        IN  IF args.no_article
            THEN [exit_status |-> 0, ops |-> dumped.ops, files |-> dumped.files]
            ELSE
            LET a == generate_article(AsJsonList(all_entries), args.model,
                                      args.base_url, args.date, world.llm)
                asked == dumped.ops
                           \o [i \in 1..Len(a.requests) |-> [op |-> "llm_request"]]
                article_file == ArticleFile(args.output)
            IN  IF a.raised # "none" \/ a.text.kind = "none"
                       \/ OpenRaises(article_file, args.output)
                THEN [exit_status |-> 1, ops |-> asked, files |-> dumped.files]
                ELSE [exit_status |-> 0,
                      ops |-> Append(asked, [op |-> "write_article",
                                             path |-> article_file,
                                             content |-> a.text]),
                      files |-> WriteFile(dumped.files, article_file,
                                          [kind |-> "text", text |-> a.text])]


(***************************************************************************)
(* extract_arxiv_images.  The text of a src attribute, and of a returned   *)
(* URL, is optional leading white space followed by a reference written as *)
(* in fetch_domestic_news: scheme (as written), netloc, rooted, path.  An  *)
(* <img> is [src, width, data_width, height, data_height], a size          *)
(* attribute being "absent" or its text.                                   *)
(***************************************************************************)
MaxImages == 5
MinSide == 200

UrlText(lead, ref) == [lead |-> lead, ref |-> ref]

\* str.lower() on the texts of the model that hold capitals
LowerCase ==
    ("DATA" :> "data") @@ ("HTTPS" :> "https") @@ ("Icon.png" :> "icon.png")
Lower(text) == IF text \in DOMAIN LowerCase THEN LowerCase[text] ELSE text

\* the keywords that occur inside the lower-case texts of the model
KeywordsInside ==
    ("icon.png" :> {"icon"}) @@ ("silicon-stack.png" :> {"icon"})
        @@ ("formula1.svg" :> {"formula"}) @@ ("context.png" :> {"tex"})
        @@ ("icons.example.org" :> {"icon"})

\* keyword in src.lower()
InLower(keyword, src) ==
    \E part \in {src.ref.scheme, src.ref.netloc} \cup Range(src.ref.path) :
        /\ Lower(part) \in DOMAIN KeywordsInside
        /\ keyword \in KeywordsInside[Lower(part)]

\* html_url = f"https://arxiv.org/html/{arxiv_id}/"
HtmlUrl(arxiv_id) == Url("https", "arxiv.org", TRUE, <<"html", arxiv_id, "">>)

\* src.startswith('data:')
SrcIsData(src) == src.lead = "" /\ src.ref.scheme = "data"

\* src.startswith('http')
SrcStartsWithHttp(src) == src.lead = "" /\ StartsWithHttp(src.ref)

\* src.startswith('//')
SrcStartsWithSlashes(src) ==
    src.lead = "" /\ src.ref.scheme = "" /\ src.ref.netloc # ""

\* urljoin(html_url, src): urlsplit drops leading white space and lower-cases
\* the scheme; a reference of another scheme comes back as it was written
UrlJoinText(base, src) ==
    IF Lower(src.ref.scheme) \notin {"", base.scheme} THEN src
    ELSE UrlText("", urljoin(base, [src.ref EXCEPT !.scheme = Lower(@)]))

\* the three branches that build image_url
ImageUrlOf(html_url, src) ==
    IF SrcStartsWithHttp(src) THEN src
    ELSE IF SrcStartsWithSlashes(src)
    THEN UrlText("", [src.ref EXCEPT !.scheme = "https"])
    ELSE UrlJoinText(html_url, src)

FormulaKeywords == {"formula", "inline", "math", "tex", "equation"}

\* int(text) of a size attribute; img.get(name, 0) gives 0 when it is absent
Pixels == ("absent" :> 0) @@ ("0" :> 0) @@ ("100" :> 100) @@ ("200" :> 200)
              @@ ("640" :> 640)

\* int(img.get(a, 0)) or int(img.get(b, 0)) or 0: b is read only when a is 0
Side(a, b) ==
    IF a \notin DOMAIN Pixels THEN [raised |-> TRUE]
    ELSE IF Pixels[a] # 0 THEN [raised |-> FALSE, v |-> Pixels[a]]
    ELSE IF b \notin DOMAIN Pixels THEN [raised |-> TRUE]
    ELSE [raised |-> FALSE, v |-> Pixels[b]]

\* if width > 0 and height > 0: if width < 200 or height < 200: continue
TooSmall(width, height) ==
    width > 0 /\ height > 0 /\ (width < MinSide \/ height < MinSide)

RECURSIVE ImgLoop(_, _, _)
\* for img in soup.find_all('img'): ...
ImgLoop(imgs, html_url, images) ==
    IF imgs = <<>> THEN Completed(images)
    ELSE LET img == Head(imgs)
             src == img.src
             width == Side(img.width, img.data_width)
             height == Side(img.height, img.data_height)
         IN  IF SrcIsData(src) THEN ImgLoop(Tail(imgs), html_url, images)
             ELSE IF \E keyword \in FormulaKeywords : InLower(keyword, src)
             THEN ImgLoop(Tail(imgs), html_url, images)
             ELSE IF InLower("icon", src) THEN ImgLoop(Tail(imgs), html_url, images)
             ELSE IF width.raised \/ height.raised THEN Raises("ValueError")
             ELSE IF TooSmall(width.v, height.v)
             THEN ImgLoop(Tail(imgs), html_url, images)
             ELSE ImgLoop(Tail(imgs), html_url,
                          Append(images, ImageUrlOf(html_url, src)))

\* a cut that keeps every image
SetPrefixUncut(n) == n

\* [:5] on a list of n items
SetPrefixLen(n) == IF n < MaxImages THEN n ELSE MaxImages

RECURSIVE FirstOfSet(_, _)
\* list(S)[:n]: a set is listed in an order of its own
FirstOfSet(S, n) ==
    IF n = 0 \/ S = {} THEN {<<>>}
    ELSE UNION {{<<x>> \o rest : rest \in FirstOfSet(S \ {x}, n - 1)} : x \in S}

\* the body of the try block: the lists it can return, or the exception
ExtractBody(arxiv_id, reply) ==
    IF reply.status # "ok" THEN {Raises(reply.status)}
    ELSE LET found == ImgLoop(reply.imgs, HtmlUrl(arxiv_id), <<>>)
         IN  IF found.exc # "none" THEN {found}
             ELSE {Completed(images) :
                     images \in FirstOfSet(Range(found.entries),
                                           SetPrefixLen(Cardinality(Range(found.entries))))}

\* extract_arxiv_images(arxiv_id): every value the call can return
extract_arxiv_images(arxiv_id, reply) ==
    {TryReturnEmpty(body) : body \in ExtractBody(arxiv_id, reply)}

(***************************************************************************)
(* The command-line scripts call_llm.py, search_github_repos.py and        *)
(* fetch_stock_data.py.  A run yields its exit status and the network      *)
(* requests it issued, in order.  An unset variable or an argument not     *)
(* given is "None"; a text is a sequence of word tokens.                   *)
(***************************************************************************)
CliResult(exit_status, requests) ==
    [exit_status |-> exit_status, requests |-> requests]

\* a or b on Optional[str]
Either(a, b) == IF a \notin {"None", ""} THEN a ELSE b

\* if api_key is None: api_key = os.getenv("ARK_API_KEY") or os.getenv("OPENAI_API_KEY")
ApiKey(api_key, env) ==
    IF api_key = "None" THEN Either(env.ARK_API_KEY, env.OPENAI_API_KEY)
    ELSE api_key

\* a missing key that does not stop the call
KeyNeverMissing(api_key) == FALSE

\* if not api_key: raise ValueError
KeyMissing(api_key) == api_key \in {"None", ""}

\* the text call_llm saves for --format json: the JSON inside a code fence
\* if there is one, re-dumped when json.loads accepts it, else written as text
SavedForJson(result) ==
    IF result.valid_json THEN [kind |-> "json.dump", of |-> result.inner]
    ELSE [kind |-> "text", of |-> result.inner]

\* main of call_llm.py: call_llm(...) in try/except Exception -> exit 1
call_llm_main(args, env, llm) ==
    LET api_key == ApiKey(args.api_key, env)
        request == [op |-> "chat.completions.create", api_key |-> api_key,
                    base_url |-> args.base_url, model |-> args.model,
                    temperature |-> "0.7", max_tokens |-> 2000]
    IN  IF KeyMissing(api_key) THEN CliResult(1, <<>>) @@ [saved |-> <<>>]
        ELSE IF llm.outcome # "ok" THEN CliResult(1, <<request>>) @@ [saved |-> <<>>]
        ELSE IF args.format = "json"
        THEN CliResult(0, <<request>>) @@ [saved |-> <<SavedForJson(llm.result)>>]
        ELSE CliResult(0, <<request>>)
                 @@ [saved |-> <<[kind |-> "text", of |-> llm.result.whole]>>]

\* int(text) for the numerals of the model; any other text is a ValueError
Numerals == ("7" :> 7) @@ ("2" :> 2) @@ ("0" :> 0)

DaysInMonth == <<31, 28, 31, 30, 31, 30, 31, 31, 30, 31, 30, 31>>

\* datetime.strptime(date_str, "%Y-%m-%d") accepts the text
StrptimeAccepts(words) ==
    /\ Len(words) = 1
    /\ "m" \in DOMAIN words[1]
    /\ words[1].m \in 1..12
    /\ words[1].d \in 1..DaysInMonth[words[1].m]

\* "<unit>s ago" in date_str or "<unit> ago" in date_str
Mentions(words, unit) ==
    \E i \in 1..(Len(words) - 1) :
        /\ "w" \in DOMAIN words[i]
        /\ words[i].w \in {unit, unit \o "s"}
        /\ words[i + 1] = [w |-> "ago"]

\* int(date_str.split()[0]) raises ValueError
FirstWordNoInt(words) ==
    "w" \notin DOMAIN words[1] \/ words[1].w \notin DOMAIN Numerals

\* parse_date: the date, or the ValueError it raises
parse_date(words) ==
    LET relative(unit_days) ==
            IF FirstWordNoInt(words) THEN [raised |-> TRUE]
            ELSE [raised |-> FALSE,
                  date |-> [days_ago |-> Numerals[words[1].w] * unit_days]]
    IN  IF Mentions(words, "day") THEN relative(1)
        ELSE IF Mentions(words, "week") THEN relative(7)
        ELSE IF Mentions(words, "month") THEN relative(30)
        ELSE IF StrptimeAccepts(words)
        THEN [raised |-> FALSE, date |-> [literal |-> words[1]]]
        ELSE [raised |-> TRUE]

\* except ValueError around the two parse_date calls: sys.exit(1)
DateRejected(parsed) == parsed.raised

\* get_github_token() raises ValueError: the variable is unset or empty
TokenMissing(token) == token \in {"None", ""}

RECURSIVE ReadmeRequests(_)
\* for i, repo in enumerate(repos): get_readme(token, owner, repo_name)
ReadmeRequests(repos) ==
    IF repos = <<>> THEN <<>>
    ELSE <<[op |-> "get_readme", repo |-> Head(repos)]>> \o ReadmeRequests(Tail(repos))

\* main of search_github_repos.py
search_github_repos_main(args, env, github) ==
    LET start_date == parse_date(args.start_date)
        end_date == parse_date(args.end_date)
        token == env.COZE_GITHUB_PAT
        search == [op |-> "search_repos", token |-> token,
                   start_date |-> start_date, end_date |-> end_date]
    IN  IF DateRejected(start_date) \/ DateRejected(end_date) THEN CliResult(1, <<>>)
        ELSE IF TokenMissing(token) THEN CliResult(1, <<>>)
        ELSE IF github.outcome # "ok" THEN CliResult(1, <<search>>)
        ELSE IF github.status >= 400 \/ github.api_error THEN CliResult(1, <<search>>)
        ELSE IF github.items = <<>> THEN CliResult(0, <<search>>)
        ELSE CliResult(0, <<search>> \o ReadmeRequests(github.items))

\* the else branch of fetch_stock_data: no use_akshare and a falsy token
NoProvider(token, use_akshare) == ~use_akshare /\ token \in {"None", ""}

\* main of fetch_stock_data.py: the provider calls each run makes
fetch_stock_data_main(args, provider) ==
    LET basic == [op |-> "tushare.stock_basic", token |-> args.token]
        daily == [op |-> "tushare.daily", token |-> args.token]
        hist == [op |-> "akshare.stock_zh_a_hist"]
    IN  IF NoProvider(args.token, args.use_akshare) THEN CliResult(1, <<>>)
        ELSE IF args.use_akshare
        THEN CliResult(IF provider.outcome = "ok" THEN 0 ELSE 1, <<hist>>)
        ELSE IF provider.outcome = "error" THEN CliResult(1, <<basic>>)
        ELSE IF provider.outcome = "unknown stock" THEN CliResult(1, <<basic, basic>>)
        ELSE IF provider.outcome = "no rows" THEN CliResult(1, <<basic, daily>>)
        ELSE CliResult(0, <<basic, daily>>)


(***************************************************************************)
(* The aggregator's inputs: entries as the fetchers hand them over.  An    *)
(* entry may lack 'url' or 'created_at' (the arXiv fetcher sets no         *)
(* created_at); 'source' is set by the fetcher the list comes from.        *)
(***************************************************************************)
UrlFragments == {"url" :> "", "url" :> "a", "url" :> "b"}
CreatedFragments ==
    {"created_at" :> <<2025, 1, 1>>, "created_at" :> <<2025, 1, 2>>}
\* entries with both keys, and entries that lack created_at, url or both
BaseEntries ==
    {u @@ c : u \in UrlFragments, c \in CreatedFragments}
        \cup {"url" :> "a", "created_at" :> <<2025, 1, 2>>, EmptyDict}

Tagged(s, tag) == [i \in 1..Len(s) |-> s[i] @@ ("source" :> tag)]

NoMergeCall ==
    [called |-> FALSE, hn |-> <<>>, arxiv |-> <<>>,
     custom |-> NoneList, domestic |-> NoneList]

FetchIdle ==
    /\ fetch_call = [fn |-> "none"]
    /\ fetch_ret = [raised |-> FALSE, entries |-> <<>>]

\* no download script has run
DownloadIdle ==
    /\ files = EmptyDict
    /\ download_call = [fn |-> "none"]
    /\ download_ret = [exit_status |-> 0]

\* no other script has run
CliIdle ==
    /\ cli_call = [script |-> "none"]
    /\ cli_ret = [exit_status |-> 0, requests |-> <<>>]

\* fetch_ai_daily.py has not run
MainIdle ==
    /\ main_call = [called |-> FALSE]
    /\ main_ret = [exit_status |-> 0, ops |-> <<>>]

ArticleIdle ==
    /\ article_call = [called |-> FALSE]
    /\ article_ret = [raised |-> "none", text |-> [kind |-> "none"],
                      clients |-> <<>>, requests |-> <<>>]

\* every split of at most MaxTotal entries over the four lists; an empty
\* custom or domestic list is passed as [] or left at its default None
\* (positionally: custom is left out only if domestic is)
InitMerge ==
    /\ \E all \in SeqsUpTo(BaseEntries, MaxTotal) :
       \E i \in 0..Len(all) : \E j \in i..Len(all) : \E k \in j..Len(all) :
       \E cnone \in BOOLEAN : \E dnone \in BOOLEAN :
          /\ cnone => (j = k /\ dnone)
          /\ dnone => k = Len(all)
          /\ hn_entries = Tagged(SubSeq(all, 1, i), "hacker_news")
          /\ arxiv_entries = Tagged(SubSeq(all, i + 1, j), "arxiv")
          /\ custom_entries =
                IF cnone THEN NoneList
                ELSE SomeList(Tagged(SubSeq(all, j + 1, k), "custom"))
          /\ domestic_entries =
                IF dnone THEN NoneList
                ELSE SomeList(Tagged(SubSeq(all, k + 1, Len(all)), "domestic"))
    /\ merge_call = NoMergeCall
    /\ unique_entries = <<>>
    /\ FetchIdle
    /\ ArticleIdle
    /\ DownloadIdle
    /\ MainIdle
    /\ CliIdle

\* one call of merge_and_sort_entries by a caller holding the argument lists
CallMerge(hn, arxiv, custom, domestic, aliased) ==
    /\ ~merge_call.called
    /\ \E r \in {merge_and_sort_entries(hn, arxiv, custom, domestic)} :
        /\ merge_call' = [called |-> TRUE, hn |-> hn, arxiv |-> arxiv,
                          custom |-> custom, domestic |-> domestic]
        /\ unique_entries' = r.ret
        /\ hn_entries' = r.hn
        /\ arxiv_entries' = IF aliased THEN arxiv_entries ELSE r.arxiv
        /\ custom_entries' = r.custom
        /\ domestic_entries' = r.domestic
        /\ UNCHANGED <<fetchVars, articleVars, downloadVars, mainVars, cliVars>>

\* merge_and_sort_entries(hn_entries, arxiv_entries, custom_entries, domestic_entries)
Merge == CallMerge(hn_entries, arxiv_entries, custom_entries, domestic_entries, FALSE)

OnlyHn ==
    /\ arxiv_entries = <<>>
    /\ custom_entries = NoneList
    /\ domestic_entries = NoneList

\* merge_and_sort_entries(S, S), S being the caller's hn list
MergeSelf ==
    /\ OnlyHn
    /\ CallMerge(hn_entries, hn_entries, NoneList, NoneList, TRUE)

\* merge_and_sort_entries(S, [])
MergeEmpty ==
    /\ OnlyHn
    /\ Len(hn_entries) > 0
    /\ CallMerge(hn_entries, <<>>, custom_entries, SomeList(<<>>), TRUE)

NextMerge == Merge \/ MergeSelf \/ MergeEmpty

SpecMerge == InitMerge /\ [][NextMerge]_vars


(***************************************************************************)
(* Claims about merge_and_sort_entries (checked under SpecMerge).          *)
(* The claims read an entry's url and created_at by their own convention:  *)
(* a missing url counts as '', a missing created_at as ''.                 *)
(***************************************************************************)
ClaimUrl(e) == IF "url" \in DOMAIN e THEN e["url"] ELSE ""
ClaimCreated(e) == IF "created_at" \in DOMAIN e THEN e["created_at"] ELSE <<>>

\* hn + arxiv + custom + domestic of the last call (None counts as empty)
MergeOrder ==
    merge_call.hn \o merge_call.arxiv \o merge_call.custom.items
        \o merge_call.domestic.items

\* positions of MergeOrder that hold the url u
Occurrences(u) == {i \in 1..Len(MergeOrder) : ClaimUrl(MergeOrder[i]) = u}

Min(S) == CHOOSE x \in S : \A y \in S : x <= y

\* C1: the list returned by merge_and_sort_entries holds no two entries with
\* the same url (an entry without a url key counting as url '').
C1_NoDuplicateUrl ==
    merge_call.called =>
        \A i, j \in 1..Len(unique_entries) :
            i # j => ClaimUrl(unique_entries[i]) # ClaimUrl(unique_entries[j])

\* a call whose inputs repeat a url, '' and a missing url among them
C1_Witness ==
    /\ merge_call.called
    /\ Len(MergeOrder) = 3
    /\ Len(unique_entries) = 2
    /\ \E i, j \in 1..Len(MergeOrder) :
          /\ "url" \notin DOMAIN MergeOrder[i]
          /\ "url" \in DOMAIN MergeOrder[j]
          /\ ClaimUrl(MergeOrder[j]) = ""

\* C2 as stated: for a url that occurs more than once in the inputs, the
\* entry retained is the first occurrence in hn + arxiv + custom + domestic,
\* whatever the created_at values are.
C2_FirstInMergeOrderWins ==
    merge_call.called =>
        \A k \in 1..Len(unique_entries) :
            unique_entries[k] =
                MergeOrder[Min(Occurrences(ClaimUrl(unique_entries[k])))]

\* the occurrences of u that carry the greatest created_at
Newest(u) ==
    {i \in Occurrences(u) :
        \A j \in Occurrences(u) :
            ~StrLess(ClaimCreated(MergeOrder[i]), ClaimCreated(MergeOrder[j]))}

\* C2 amended: for a url that occurs more than once in the inputs, the entry
\* retained is the occurrence with the greatest created_at (a missing one
\* compared as ''), and among occurrences with that same created_at the one
\* that comes first in hn + arxiv + custom + domestic.
C2_NewestThenFirstWins ==
    merge_call.called =>
        \A k \in 1..Len(unique_entries) :
            unique_entries[k] =
                MergeOrder[Min(Newest(ClaimUrl(unique_entries[k])))]

\* a url occurs twice with one created_at in different lists, and once older
C2_Witness ==
    /\ merge_call.called
    /\ \E u \in {"", "a", "b"} :
          /\ Cardinality(Occurrences(u)) = 3
          /\ Cardinality(Newest(u)) = 2
          /\ Min(Newest(u)) > Min(Occurrences(u))
          /\ \E k \in 1..Len(unique_entries) :
                unique_entries[k] = MergeOrder[Min(Newest(u))]
          /\ MergeOrder[Min(Newest(u))] # MergeOrder[Min(Newest(u) \ {Min(Newest(u))})]

\* C3: the output is no longer than the inputs together, every output entry
\* is field for field an input entry, and the caller's input lists hold after
\* the call what they held before it.
C3_OnlyFiltersAndReorders ==
    merge_call.called =>
        /\ Len(unique_entries) <= Len(MergeOrder)
        /\ \A k \in 1..Len(unique_entries) :
              unique_entries[k] \in Range(MergeOrder)
        /\ hn_entries = merge_call.hn
        /\ merge_call.arxiv \in {arxiv_entries, hn_entries}
        /\ custom_entries = merge_call.custom
        /\ domestic_entries = merge_call.domestic

\* all four lists are non-empty... within MaxTotal: three are, one entry dropped
C3_Witness ==
    /\ merge_call.called
    /\ Len(merge_call.hn) > 0
    /\ Len(merge_call.arxiv) > 0
    /\ Truthy(merge_call.custom) \/ Truthy(merge_call.domestic)
    /\ Len(unique_entries) < Len(MergeOrder)
    /\ hn_entries = merge_call.hn

\* S has pairwise distinct urls and is in non-increasing created_at order
DedupedAndSorted(S) ==
    /\ \A i, j \in 1..Len(S) : i # j => ClaimUrl(S[i]) # ClaimUrl(S[j])
    /\ \A i \in 1..Len(S) - 1 :
          ~StrLess(ClaimCreated(S[i]), ClaimCreated(S[i + 1]))

\* C4: for S with pairwise distinct urls and non-increasing created_at,
\* merge_and_sort_entries(S, S) and merge_and_sort_entries(S, []) both
\* return exactly S.
C4_Idempotent ==
    ( /\ merge_call.called
      /\ merge_call.arxiv \in {merge_call.hn, <<>>}
      /\ ~Truthy(merge_call.custom)
      /\ ~Truthy(merge_call.domestic)
      /\ DedupedAndSorted(merge_call.hn) )
        => unique_entries = merge_call.hn

\* S is merged with itself: three entries, a tie and a strict step in it
C4_Witness ==
    /\ merge_call.called
    /\ merge_call.arxiv = merge_call.hn
    /\ DedupedAndSorted(merge_call.hn)
    /\ Len(merge_call.hn) = 3
    /\ ClaimCreated(merge_call.hn[1]) = ClaimCreated(merge_call.hn[2])
    /\ StrLess(ClaimCreated(merge_call.hn[3]), ClaimCreated(merge_call.hn[2]))
    /\ unique_entries = merge_call.hn

\* position i of the concatenation comes before position j once it is
\* stable-sorted by created_at descending
SortsBefore(all, i, j) ==
    \/ StrLess(ClaimCreated(all[j]), ClaimCreated(all[i]))
    \/ /\ ClaimCreated(all[i]) = ClaimCreated(all[j])
       /\ i < j

\* the positions whose url did not occur earlier in the sorted sequence
Retained(all) ==
    {i \in 1..Len(all) :
        \A j \in 1..Len(all) :
            SortsBefore(all, j, i) => ClaimUrl(all[j]) # ClaimUrl(all[i])}

\* C22: merge_and_sort_entries returns exactly the concatenation hn, arxiv,
\* custom, domestic, stable-sorted by created_at descending (a missing
\* created_at compared as ''), without the entries whose url occurred earlier
\* in the sorted sequence; so the output is non-increasing in created_at and
\* each url keeps its entry with the greatest created_at.
C22_ExactMergeResult ==
    merge_call.called =>
        LET all == MergeOrder
            kept == Retained(all)
        IN  /\ Len(unique_entries) = Cardinality(kept)
            /\ \A i \in kept :
                  unique_entries[1 + Cardinality({j \in kept : SortsBefore(all, j, i)})]
                      = all[i]
            /\ \A k \in 1..Len(unique_entries) - 1 :
                  ~StrLess(ClaimCreated(unique_entries[k]),
                           ClaimCreated(unique_entries[k + 1]))
            /\ \A k \in 1..Len(unique_entries) :
                  \A j \in 1..Len(all) :
                      ClaimUrl(all[j]) = ClaimUrl(unique_entries[k]) =>
                          ~StrLess(ClaimCreated(unique_entries[k]), ClaimCreated(all[j]))

\* three entries from different lists: the newest is last in the
\* concatenation and first in the output, and the older copy of a url is
\* the one that goes
C22_Witness ==
    /\ merge_call.called
    /\ Len(MergeOrder) = 3
    /\ Len(merge_call.hn) = 1
    /\ Len(merge_call.arxiv) = 1
    /\ Len(unique_entries) = 2
    /\ ClaimUrl(MergeOrder[1]) = ClaimUrl(MergeOrder[3])
    /\ StrLess(ClaimCreated(MergeOrder[1]), ClaimCreated(MergeOrder[3]))
    /\ "created_at" \notin DOMAIN MergeOrder[2]
    /\ unique_entries = <<MergeOrder[3], MergeOrder[2]>>


(***************************************************************************)
(* The fetchers' callers and upstream replies (SpecFetch).                 *)
(***************************************************************************)
MergeIdle ==
    /\ hn_entries = <<>>
    /\ arxiv_entries = <<>>
    /\ custom_entries = NoneList
    /\ domestic_entries = NoneList
    /\ merge_call = NoMergeCall
    /\ unique_entries = <<>>

InitFetch == MergeIdle /\ FetchIdle /\ ArticleIdle /\ DownloadIdle /\ MainIdle /\ CliIdle

Limits == 0..MaxLimit

FailedReplies == {[status |-> f] : f \in ReplyFailures}

\* Algolia hits: a story with url, points (null for some) and creation time,
\* one of them older than the cutoff, and a text post without url or points
HitUrls == {"https://a.example/1", "https://b.example/2"}
Hits ==
    {[objectID |-> "1", title |-> "AI", url |-> u, points |-> pt,
      created_at_i |-> UtcNow - 1] : u \in HitUrls, pt \in {JNull, JInt(1), JInt(2)}}
    \cup {[objectID |-> "2", title |-> "AI", url |-> "https://b.example/2",
           points |-> JInt(2), created_at_i |-> UtcNow - CutoffDays - 1,
           og_image |-> "https://b.example/og.png"]}
    \cup {[objectID |-> "7"]}
HnReplies ==
    FailedReplies \cup {[status |-> "ok", hits |-> h] : h \in SeqsUpTo(Hits, MaxRecords)}

\* fetch_hacker_news(limit=limit) against an upstream that answers reply
FetchHackerNews ==
    /\ fetch_call.fn = "none"
    /\ \E limit \in Limits : \E reply \in HnReplies :
        /\ fetch_call' = [fn |-> "fetch_hacker_news", limit |-> limit, reply |-> reply]
        /\ fetch_ret' = fetch_hacker_news(limit, reply)
        /\ UNCHANGED <<mergeVars, articleVars, downloadVars, mainVars, cliVars>>

\* ArXiv feed entries: two papers; published on the target day, on another
\* recent day, more than a month ago, or in a format strptime rejects
ArxivIds ==
    {[ident |-> "2501.00001", version |-> "v1"],
     [ident |-> "2501.00002", version |-> "v1"]}
PublishedValues ==
    {[text |-> "target day", day |-> UtcNow - 1],
     [text |-> "recent day", day |-> UtcNow - 2],
     [text |-> "old day", day |-> UtcNow - MonthDays - 1],
     [text |-> "no ISO date"]}
FeedEntries ==
    {[id |-> i, published |-> pb, title |-> "paper",
      summary |-> [text |-> "abstract", len |-> 8], authors |-> "A, B"] :
        i \in ArxivIds, pb \in PublishedValues}
ArxivReplies ==
    FailedReplies
        \cup {[status |-> "ok", feed |-> f] : f \in SeqsUpTo(FeedEntries, MaxRecords)}
TargetDates ==
    {[given |-> FALSE],
     [given |-> TRUE, text |-> "target day", day |-> UtcNow - 1],
     [given |-> TRUE, text |-> "01/02/2025"]}

\* fetch_arxiv_papers(limit=limit, max_results=20, target_date=target_date)
FetchArxivPapers ==
    /\ fetch_call.fn = "none"
    /\ \E limit \in Limits : \E target_date \in TargetDates : \E reply \in ArxivReplies :
        /\ fetch_call' = [fn |-> "fetch_arxiv_papers", limit |-> limit,
                          target_date |-> target_date, reply |-> reply]
        /\ fetch_ret' = fetch_arxiv_papers(limit, target_date, reply)
        /\ UNCHANGED <<mergeVars, articleVars, downloadVars, mainVars, cliVars>>

\* RSS entries with and without a link
RssEntries ==
    {[title |-> "AI news", summary |-> "text", link |-> "https://a.example/1"],
     [title |-> "AI news", summary |-> "text", link |-> "https://b.example/2",
      enclosure_image |-> "https://b.example/e.png"],
     [title |-> "AI news", description |-> "text"]}

\* JSON items: objects with a url or a link and no date, a date that parses
\* or a date no format matches; an object with a numeric date; a string
DateValues ==
    {JNull, [t |-> "str", v |-> "2025-01-02", day |-> UtcNow - 1],
     [t |-> "str", v |-> "yesterday"]}
JsonObjects ==
    {[title |-> JStr("AI news"), url |-> JStr("https://a.example/1"),
      published |-> d] : d \in DateValues}
    \cup {[name |-> JStr("AI news"), link |-> JStr("https://b.example/2"),
           date |-> d] : d \in DateValues}
    \cup {[title |-> JStr("AI news"), url |-> JStr("https://b.example/2"),
           publish_time |-> JInt(UtcNow)]}
JsonItemValues == {[t |-> "obj", fields |-> o] : o \in JsonObjects} \cup {JStr("AI news")}
JsonData ==
    {[shape |-> "dict", key |-> "items", is_list |-> TRUE, items |-> i] :
        i \in SeqsUpTo(JsonItemValues, MaxRecords)}
    \cup {[shape |-> "dict", key |-> "data", is_list |-> FALSE],
          [shape |-> "dict", key |-> "none"],
          [shape |-> "list"]}
CustomReplies ==
    FailedReplies
        \cup {[status |-> "ok", body |-> [kind |-> "feed", entries |-> f]] :
                f \in SeqsUpTo(RssEntries, MaxRecords) \ {<<>>}}
        \cup {[status |-> "ok", body |-> [kind |-> "json", data |-> d]] : d \in JsonData}
        \cup {[status |-> "ok", body |-> [kind |-> "neither"]]}

\* fetch_custom_news_source(custom_url, source_name="custom", limit=limit)
FetchCustomNewsSource ==
    /\ fetch_call.fn = "none"
    /\ \E limit \in Limits : \E reply \in CustomReplies :
        /\ fetch_call' = [fn |-> "fetch_custom_news_source", limit |-> limit,
                          reply |-> reply]
        /\ fetch_ret' = fetch_custom_news_source("custom", limit, reply)
        /\ UNCHANGED <<mergeVars, articleVars, downloadVars, mainVars, cliVars>>

\* link targets: one page of 36kr.com named by a site-relative and by an
\* absolute link, a page named relative to the current directory, and href=""
Href(ref) == [text_empty |-> FALSE, ref |-> ref]
EmptyHref == [text_empty |-> TRUE, ref |-> Url("", "", FALSE, <<>>)]
NewsHrefs ==
    {Href(Url("", "", TRUE, <<"p", "1">>)),
     Href(Url("https", "36kr.com", TRUE, <<"p", "1">>)),
     Href(Url("", "", FALSE, <<"p", "2">>))}
NewsTitles ==
    {[text |-> "AI title one", len |-> 12, words |-> {"AI"}],
     [text |-> "LLM title number two", len |-> 20, words |-> {"LLM", "zhineng"}]}
PageLinks ==
    {[href |-> h, title |-> t] : h \in NewsHrefs, t \in NewsTitles}
    \cup {[href |-> EmptyHref, title |-> t] : t \in NewsTitles}
    \cup {[href |-> Href(Url("", "", FALSE, <<"p", "2">>)), title |-> t] :
            t \in {[text |-> "AI", len |-> 2, words |-> {"AI"}],
                    [text |-> "AI denglu page", len |-> 14, words |-> {"AI", "denglu"}],
                    [text |-> "sports results", len |-> 14, words |-> {}]}}
DomesticReplies ==
    FailedReplies
        \cup {[status |-> "ok", links |-> l] : l \in SeqsUpTo(PageLinks, MaxRecords)}
SourceKeys == DOMAIN PREDEFINED_SOURCES \cup {"unknown-source"}

\* fetch_domestic_news(source_key, limit=limit)
FetchDomesticNews ==
    /\ fetch_call.fn = "none"
    /\ \E source_key \in SourceKeys : \E limit \in Limits : \E reply \in DomesticReplies :
        /\ fetch_call' = [fn |-> "fetch_domestic_news", source_key |-> source_key,
                          limit |-> limit, reply |-> reply]
        /\ fetch_ret' = fetch_domestic_news(source_key, limit, reply)
        /\ UNCHANGED <<mergeVars, articleVars, downloadVars, mainVars, cliVars>>

NextFetch ==
    FetchHackerNews \/ FetchArxivPapers \/ FetchCustomNewsSource \/ FetchDomesticNews

SpecFetch == InitFetch /\ [][NextFetch]_vars


(***************************************************************************)
(* Claims about the fetchers (checked under SpecFetch).                    *)
(***************************************************************************)
FetchCalled == fetch_call.fn # "none"

UpstreamFailed == FetchCalled /\ fetch_call.reply.status \in ReplyFailures

\* C5: whatever the upstream does (network error, timeout, non-2xx status,
\* unparseable payload, or a reply whose records make a statement raise),
\* each fetcher returns a list to its caller, the empty list when the
\* upstream call failed, and lets no exception out.
C5_FetchersNeverRaise ==
    FetchCalled =>
        /\ ~fetch_ret.raised
        /\ UpstreamFailed => fetch_ret.entries = <<>>

\* the Hacker News payload is no JSON: response.json() raises in the try block
C5_Witness ==
    /\ fetch_call.fn = "fetch_hacker_news"
    /\ fetch_call.reply.status = "JSONDecodeError"
    /\ fetch_call.limit > 0
    /\ ~fetch_ret.raised
    /\ fetch_ret.entries = <<>>

\* a Hacker News hit that can be normalized: its points are not null
WellFormedHit(hit) == Get(hit, "points", JInt(0)) # JNull

\* a custom JSON item that can be normalized: an object whose date, if it has
\* one, is a string in a known format
WellFormedItem(item) ==
    /\ item.t = "obj"
    /\ \A k \in {"published", "publish_time", "date"} \cap DOMAIN item.fields :
          \/ item.fields[k] = JNull
          \/ item.fields[k].t = "str" /\ "day" \in DOMAIN item.fields[k]

\* what the call returns for the reply without its malformed records
WithoutMalformed ==
    IF fetch_call.fn = "fetch_hacker_news"
    THEN fetch_hacker_news(fetch_call.limit,
            [status |-> "ok", hits |-> SelectSeq(fetch_call.reply.hits, WellFormedHit)])
    ELSE fetch_custom_news_source("custom", fetch_call.limit,
            [status |-> "ok",
             body |-> [kind |-> "json",
                       data |-> [shape |-> "dict", key |-> "items", is_list |-> TRUE,
                                 items |-> SelectSeq(fetch_call.reply.body.data.items,
                                                     WellFormedItem)]]])

\* a successful reply whose records all fit under the limit
BatchWithinLimit ==
    /\ FetchCalled
    /\ fetch_call.reply.status = "ok"
    /\ \/ /\ fetch_call.fn = "fetch_hacker_news"
          /\ Len(fetch_call.reply.hits) <= fetch_call.limit
       \/ /\ fetch_call.fn = "fetch_custom_news_source"
          /\ fetch_call.reply.body.kind = "json"
          /\ "items" \in DOMAIN fetch_call.reply.body.data
          /\ Len(fetch_call.reply.body.data.items) <= fetch_call.limit

\* C6: a record that cannot be normalized is skipped alone: the entries
\* built from the other records of the batch are still returned.
C6_MalformedRecordSkipped ==
    BatchWithinLimit => Range(WithoutMalformed.entries) \subseteq Range(fetch_ret.entries)

\* C7: a fetcher called with limit >= 0 returns at most limit entries.
C7_AtMostLimit ==
    FetchCalled => Len(fetch_ret.entries) <= fetch_call.limit

\* C8: no two entries returned by one fetcher call have the same url.
C8_NoDuplicateUrlPerFetcher ==
    FetchCalled =>
        \A i, j \in 1..Len(fetch_ret.entries) :
            i # j => fetch_ret.entries[i].url # fetch_ret.entries[j].url

\* C23: every entry returned by a fetcher (Hacker News, arXiv, custom source,
\* domestic source) carries a created_at timestamp.
C23_EveryEntryHasCreatedAt ==
    FetchCalled =>
        \A i \in 1..Len(fetch_ret.entries) :
            "created_at" \in DOMAIN fetch_ret.entries[i]

ArxivCalled == fetch_call.fn = "fetch_arxiv_papers"

\* the target date is a date strptime("%Y-%m-%d") reads
TargetValid == fetch_call.target_date.given /\ "day" \in DOMAIN fetch_call.target_date

\* C28: fetch_arxiv_papers with a valid target_date returns only papers
\* published on that calendar date; with a target_date that is no YYYY-MM-DD
\* date it returns the empty list; without a target_date it returns only
\* papers published no more than 30 days before now.
C28_TargetDateFilter ==
    ArxivCalled =>
        /\ TargetValid =>
              \A i \in 1..Len(fetch_ret.entries) :
                  fetch_ret.entries[i].published.day = fetch_call.target_date.day
        /\ (fetch_call.target_date.given /\ ~TargetValid) => fetch_ret.entries = <<>>
        /\ ~fetch_call.target_date.given =>
              \A i \in 1..Len(fetch_ret.entries) :
                  fetch_ret.entries[i].published.day >= UtcNow - 30

\* a feed with a paper of the target day and a paper of another recent day,
\* of which the first alone is returned
C28_Witness ==
    /\ ArxivCalled
    /\ TargetValid
    /\ fetch_call.reply.status = "ok"
    /\ fetch_call.limit = 2
    /\ \E i, j \in 1..Len(fetch_call.reply.feed) :
          /\ fetch_call.reply.feed[i].published.text = "recent day"
          /\ fetch_call.reply.feed[j].published.text = "target day"
          /\ fetch_call.reply.feed[i].id # fetch_call.reply.feed[j].id
          /\ i < j
    /\ Len(fetch_ret.entries) = 1


(***************************************************************************)
(* The article generator's callers and the LLM endpoint (SpecArticle).     *)
(***************************************************************************)
InitArticle == MergeIdle /\ FetchIdle /\ ArticleIdle /\ DownloadIdle /\ MainIdle /\ CliIdle

\* merged entries as the fetchers build them, and a paper record without
\* authors
ArticleEntries ==
    {[title |-> JStr("Show HN: AI"), url |-> JStr("https://a.example/1"),
      summary |-> JInt(5), points |-> JInt(5), created_at |-> JStr("2025-01-02 08:00:00"),
      source |-> JStr("hacker_news"), type |-> JStr("news"), image |-> JNull],
     [title |-> JStr("AI news"), url |-> JStr("https://b.example/2"),
      summary |-> JStr("text"), created_at |-> JStr("2025-01-02 09:00:00"),
      source |-> JStr("custom"), type |-> JStr("news"), image |-> JStr("")],
     [title |-> JStr("paper"), url |-> JStr("https://arxiv.org/abs/2501.00001v1"),
      arxiv_id |-> JStr("2501.00001v1"), summary |-> JStr("abstract"),
      authors |-> JStr("A, B"), published |-> JStr("2025-01-01"),
      source |-> JStr("arxiv"), type |-> JStr("paper"),
      images |-> JList(<<"https://arxiv.org/html/2501.00001v1/x1.png">>)],
     [title |-> JStr("paper"), url |-> JStr("https://arxiv.org/abs/2501.00002v1"),
      summary |-> JStr("abstract"), type |-> JStr("paper")]}

\* the endpoint: a transport or API error raised by create(), or an answer
\* with text, without text, with no choice, or without the choices list
LlmBehaviours ==
    {[outcome |-> o] :
        o \in {"APIConnectionError", "APITimeoutError", "AuthenticationError"}}
    \cup {[outcome |-> "ok", choices |-> "one", content |-> ct] :
            ct \in {JStr("# AI daily"), JStr(""), JNull}}
    \cup {[outcome |-> "ok", choices |-> ch] : ch \in {"empty", "missing"}}

\* generate_article(all_entries, model=args.model, base_url=args.base_url, date=args.date)
GenerateArticle ==
    /\ ~article_call.called
    /\ \E entries \in SeqsUpTo(ArticleEntries, MaxTotal) :
       \E date \in {"None", "2025-01-02"} :
       \E base_url \in {"None", "https://llm.example/v1"} :
       \E llm \in LlmBehaviours :
          /\ article_call' = [called |-> TRUE, entries |-> entries,
                              date |-> date, base_url |-> base_url,
                              llm |-> llm]
          /\ article_ret' = generate_article(entries, DEFAULT_MODEL,
                                             base_url, date, llm)
          /\ UNCHANGED <<mergeVars, fetchVars, downloadVars, mainVars, cliVars>>

NextArticle == GenerateArticle

SpecArticle == InitArticle /\ [][NextArticle]_vars

(***************************************************************************)
(* Claims about generate_article (checked under SpecArticle).              *)
(***************************************************************************)
\* the LLM call of the last generate_article call failed: create() raised,
\* or its answer is malformed (no choices list) or empty (no choice, or a
\* choice without content)
LlmCallFailed ==
    /\ article_call.called
    /\ Len(article_ret.requests) > 0
    /\ \/ article_call.llm.outcome # "ok"
       \/ article_call.llm.choices # "one"
       \/ article_call.llm.content = JNull

\* json.loads of one literal
LiteralValue(literal) ==
    CASE literal.lit = "null" -> JNull
      [] literal.lit = "string" -> JStr(literal.chars)
      [] literal.lit = "array" -> JList(literal.items)
      [] literal.lit = "number" ->
            JInt(CHOOSE n \in 0..9 : ToString(n) = literal.digits)

\* the JSON object holds exactly the fields of the entry, with their values
ObjectIsEntry(object, entry) ==
    /\ Len(object) = Cardinality(DOMAIN entry)
    /\ \A k \in DOMAIN entry :
          \E m \in 1..Len(object) :
              object[m].key = k /\ LiteralValue(object[m].literal) = entry[k]

C10_EmptyInputNoRequest ==
    (article_call.called /\ article_call.entries = <<>>) =>
        /\ article_ret.raised = "none"
        /\ article_ret.text = [kind |-> "fixed", parts |-> NothingFoundMessage]
        /\ article_ret.clients = <<>>
        /\ article_ret.requests = <<>>

\* the call with no entries, against an endpoint that would have answered
C10_Witness ==
    /\ article_call.called
    /\ article_call.entries = <<>>
    /\ article_call.llm.outcome = "ok"
    /\ article_ret.text.kind = "fixed"
    /\ article_ret.requests = <<>>


\* C11: a call of generate_article with a non-empty entry sequence (entries
\* as the fetchers build them) issues exactly one completion request, whether
\* it succeeds or fails, with temperature 0.7, max_tokens 2000 and two
\* messages: the fixed system message and one user prompt.
C11_ExactlyOneRequest ==
    (article_call.called /\ article_call.entries # <<>>
        /\ ~PromptRaises(article_call.entries)) =>
        /\ Len(article_ret.requests) = 1
        /\ article_ret.requests[1].temperature = "0.7"
        /\ article_ret.requests[1].max_tokens = 2000
        /\ Len(article_ret.requests[1].messages) = 2
        /\ article_ret.requests[1].messages[1] =
              [role |-> "system", content |-> SystemMessage]
        /\ article_ret.requests[1].messages[2] =
              [role |-> "user",
               content |-> Prompt(article_call.entries, article_call.date)]

\* the endpoint times out on a call with two entries: one request, then the
\* fallback
C11_Witness ==
    /\ article_call.called
    /\ Len(article_call.entries) = 2
    /\ article_call.llm.outcome = "APITimeoutError"
    /\ Len(article_ret.requests) = 1
    /\ article_ret.text.kind = "fallback"


(***************************************************************************)
(* The download scripts and the web they read (SpecDownload).              *)
(***************************************************************************)
\* the destination is absent, or holds an older file
InitDownload ==
    /\ MergeIdle /\ FetchIdle /\ ArticleIdle /\ MainIdle /\ CliIdle
    /\ files \in {EmptyDict, ImagePath("images", 1, 1, ".png") :> <<7, 7, 7>>}
    /\ download_call = [fn |-> "none"]
    /\ download_ret = [exit_status |-> 0]

StatusCodes == {200, 204, 404, 500}

ContentTypes ==
    {<<"image", "/", "png">>, <<"image", "/", "jpeg", ";", "q=1">>,
     <<"text", "/", "html">>, <<"text", "/", "html", ";", "charset=utf-8">>,
     <<"Image", "/", "PNG">>, <<"application", "/", "octet-stream">>}

ContentLengths ==
    {[digits |-> TRUE, n |-> k] : k \in {0, 3, MaxImageBytes, MaxImageBytes + 1}}
    \cup {[digits |-> FALSE]}

ResponseHeaders ==
    {ct @@ cl :
        ct \in {EmptyDict} \cup {"content-type" :> t : t \in ContentTypes},
        cl \in {EmptyDict} \cup {"content-length" :> l : l \in ContentLengths}}

Chunks == {<<>>, <<1>>, <<2, 3>>}

\* a streamed body: the chunks iter_content yields, and whether the
\* connection breaks after them
Bodies ==
    {[chunks |-> c, broken |-> b] : c \in SeqsUpTo(Chunks, MaxChunks), b \in BOOLEAN}

ImageResponses ==
    {[outcome |-> o] : o \in TransportErrors}
    \cup {[outcome |-> "ok", status |-> st, headers |-> h, body |-> b] :
            st \in StatusCodes, h \in ResponseHeaders, b \in Bodies}

\* python download_image.py --url URL --output PATH
DownloadImageMain ==
    /\ download_call.fn = "none"
    /\ \E response \in ImageResponses :
       \E r \in {download_image("https://a.example/x.png",
                                ImagePath("images", 1, 1, ".png"), response, files)} :
          /\ download_call' = [fn |-> "download_image", files |-> files,
                               output_path |-> ImagePath("images", 1, 1, ".png"),
                               response |-> response]
          /\ download_ret' = [exit_status |-> IF r.raised = "none" THEN 0 ELSE 1,
                              raised |-> r.raised, at |-> r.at, value |-> r.value,
                              chunks_read |-> r.chunks_read]
          /\ files' = r.files
          /\ UNCHANGED <<mergeVars, fetchVars, articleVars, mainVars, cliVars>>

\* the image URLs of a data file and what the web answers for each
BatchUrls ==
    {ImageUrl("https://a.example/og", ".png"),
     ImageUrl("https://arxiv.org/html/2501.00001v1/x1", ".jpg"),
     ImageUrl("https://arxiv.org/html/2501.00001v1/fig", "")}

BatchResponses ==
    {[outcome |-> "Timeout"],
     [outcome |-> "ok", status |-> 200,
      headers |-> "content-type" :> <<"text", "/", "html">>,
      body |-> [chunks |-> << <<1>> >>, broken |-> FALSE]],
     [outcome |-> "ok", status |-> 200,
      headers |-> "content-type" :> <<"image", "/", "png">>,
      body |-> [chunks |-> << <<2, 3>> >>, broken |-> FALSE]]}

\* entries of the JSON document the aggregator writes: news with an image,
\* with image null and with image '', papers with and without images
BatchEntries ==
    {[title |-> JStr("Show HN: AI"), source |-> JStr("hacker_news"),
      image |-> JStr(ImageUrl("https://a.example/og", ".png"))],
     [title |-> JStr("AI news"), source |-> JStr("hacker_news"), image |-> JNull],
     [title |-> JStr("AI news"), source |-> JStr("custom"), image |-> JStr(EmptyUrl)],
     [title |-> JStr("paper"), source |-> JStr("arxiv"),
      images |-> JList(<<ImageUrl("https://arxiv.org/html/2501.00001v1/x1", ".jpg"),
                         ImageUrl("https://arxiv.org/html/2501.00001v1/fig", "")>>)],
     [title |-> JStr("paper"), source |-> JStr("arxiv"), images |-> JList(<<>>)]}

\* python download_batch_images.py --input DATA --output images
DownloadBatchMain ==
    /\ download_call.fn = "none"
    /\ \E entries \in SeqsUpTo(BatchEntries, MaxTotal) :
       \E web \in [BatchUrls -> BatchResponses] :
       \E r \in {download_images_from_data([entries |-> entries], "images", web, files)} :
          /\ download_call' = [fn |-> "download_images_from_data", files |-> files,
                               entries |-> entries, web |-> web]
          /\ download_ret' = [exit_status |-> IF r.fail_count > 0 THEN 1 ELSE 0,
                              success_count |-> r.success_count,
                              fail_count |-> r.fail_count,
                              attempts |-> r.attempts]
          /\ files' = r.files
          /\ UNCHANGED <<mergeVars, fetchVars, articleVars, mainVars, cliVars>>

NextDownload == DownloadImageMain \/ DownloadBatchMain

SpecDownload == InitDownload /\ [][NextDownload]_vars

(***************************************************************************)
(* Claims about download_image (checked under SpecDownload).               *)
(***************************************************************************)
ImageCalled == download_call.fn = "download_image"

GotResponse == ImageCalled /\ download_call.response.outcome = "ok"

DeclaredType == Get(download_call.response.headers, "content-type", <<>>)

\* C12: whatever the status code, a response whose Content-Type is text/html
\* (or anything that does not start with image/) makes download_image fail,
\* and no file is created or modified.
C12_NonImageRejected ==
    (GotResponse /\ ~StartsWith(DeclaredType, <<"image", "/">>)) =>
        /\ download_ret.raised # "none"
        /\ download_ret.exit_status = 1
        /\ files = download_call.files

\* status 200, Content-Type text/html, a body that would have been written
C12_Witness ==
    /\ GotResponse
    /\ download_call.response.status = 200
    /\ DeclaredType = <<"text", "/", "html">>
    /\ download_call.response.body.chunks = <<<<1>>, <<2, 3>>>>
    /\ ~download_call.response.body.broken
    /\ download_ret.at = "content-type"
    /\ files = download_call.files

DeclaredLength ==
    Get(download_call.response.headers, "content-length", [digits |-> FALSE])

\* the response passes the status and content-type checks
PassesStatusAndType ==
    /\ GotResponse
    /\ download_call.response.status < 400
    /\ StartsWith(DeclaredType, <<"image", "/">>)

\* C13: a declared Content-Length above 10 MiB makes download_image fail
\* without reading a chunk of the body and without writing the destination;
\* a declared length of exactly 10 MiB, or no Content-Length, passes this
\* check (the call goes on to write the file).
C13_OversizeRejectedUnread ==
    /\ (GotResponse /\ DeclaredLength.digits /\ DeclaredLength.n > 10 * 1024 * 1024) =>
          /\ download_ret.raised # "none"
          /\ download_ret.chunks_read = 0
          /\ files = download_call.files
    /\ (PassesStatusAndType
          /\ \/ "content-length" \notin DOMAIN download_call.response.headers
             \/ DeclaredLength.digits /\ DeclaredLength.n = 10 * 1024 * 1024) =>
          /\ download_ret.at \in {"write", "size", "return"}
          /\ download_call.output_path \in DOMAIN files

\* an image response that declares 10 MiB + 1 byte, over an older file
C13_Witness ==
    /\ PassesStatusAndType
    /\ DeclaredLength.digits
    /\ DeclaredLength.n = 10 * 1024 * 1024 + 1
    /\ download_call.response.body.chunks # <<>>
    /\ download_call.files # EmptyDict
    /\ download_ret.at = "content-length"
    /\ download_ret.chunks_read = 0
    /\ files = download_call.files

\* the bytes the body streams
RECURSIVE BodyBytes(_)
BodyBytes(chunks) ==
    IF chunks = <<>> THEN 0 ELSE Len(Head(chunks)) + BodyBytes(Tail(chunks))

\* C14: download_image returns the destination path only when the file at
\* that path is non-empty after writing; a response that passes the status,
\* content-type and length checks but streams an empty body makes the call
\* fail.
C14_ReturnsOnlyNonEmptyFile ==
    /\ (ImageCalled /\ download_ret.raised = "none") =>
          /\ download_ret.value = <<download_call.output_path>>
          /\ download_call.output_path \in DOMAIN files
          /\ Len(files[download_call.output_path]) > 0
    /\ (ImageCalled /\ download_ret.value # <<>>) => download_ret.raised = "none"
    /\ (PassesStatusAndType
          /\ download_ret.at \in {"write", "size", "return"}
          /\ BodyBytes(download_call.response.body.chunks) = 0) =>
          /\ download_ret.raised # "none"
          /\ download_ret.value = <<>>
          /\ download_ret.exit_status = 1

\* status 200, image/png, no Content-Length, a body of one empty chunk
C14_Witness ==
    /\ PassesStatusAndType
    /\ download_call.response.status = 200
    /\ "content-length" \notin DOMAIN download_call.response.headers
    /\ download_call.response.body = [chunks |-> << <<>> >>, broken |-> FALSE]
    /\ download_ret.at = "size"
    /\ download_ret.raised = "save failed"

BatchCalled == download_call.fn = "download_images_from_data"

RECURSIVE UrlOccurrences(_, _)
\* the image URLs of the entries, in entry order, each with the position of
\* its entry
UrlOccurrences(entries, idx) ==
    IF entries = <<>> THEN <<>>
    ELSE LET e == Head(entries)
             single == IF "image" \in DOMAIN e /\ e["image"].t = "str" /\ e["image"].v.stem # ""
                       THEN <<e["image"].v>> ELSE <<>>
             many == IF "images" \in DOMAIN e THEN e["images"].v ELSE <<>>
             urls == single \o many
         IN  [i \in 1..Len(urls) |-> [idx |-> idx, url |-> urls[i]]]
                 \o UrlOccurrences(Tail(entries), idx + 1)

\* the downloads of the attempts that succeeded are on disk
Succeeded(attempt) == download_call.web[attempt.url].outcome = "ok"
                          /\ StartsWith(download_call.web[attempt.url].headers["content-type"],
                                        <<"image", "/">>)

\* C15: download_images_from_data attempts every image URL of every entry
\* once, in entry order, whatever downloads fail; success_count + fail_count
\* is the number of attempts, and the process exits nonzero exactly when
\* fail_count > 0.
C15_BatchAttemptsEveryUrl ==
    BatchCalled =>
        LET expected == UrlOccurrences(download_call.entries, 1)
            attempts == download_ret.attempts
        IN  /\ Len(attempts) = Len(expected)
            /\ \A i \in 1..Len(expected) :
                  attempts[i].idx = expected[i].idx /\ attempts[i].url = expected[i].url
            /\ download_ret.success_count + download_ret.fail_count = Len(attempts)
            /\ download_ret.fail_count =
                  Cardinality({i \in 1..Len(attempts) : ~Succeeded(attempts[i])})
            /\ (download_ret.exit_status # 0) <=> (download_ret.fail_count > 0)

\* three attempts; the first times out, the later ones are still made and
\* one of them succeeds
C15_Witness ==
    /\ BatchCalled
    /\ Len(download_ret.attempts) = 3
    /\ download_call.web[download_ret.attempts[1].url].outcome = "Timeout"
    /\ download_ret.success_count >= 1
    /\ download_ret.fail_count >= 1
    /\ download_ret.exit_status = 1

\* C25: download_image either returns the destination with a non-empty file
\* written, or fails with nothing persisted: after a failed call the
\* destination holds no file written by that call.
C25_FailureLeavesNoFile ==
    (ImageCalled /\ download_ret.raised # "none") => files = download_call.files


(***************************************************************************)
(* Runs of fetch_ai_daily.py and the world they meet (SpecMain).           *)
(***************************************************************************)
InitMain == MergeIdle /\ FetchIdle /\ ArticleIdle /\ DownloadIdle /\ MainIdle /\ CliIdle

HnNews ==
    <<[title |-> JStr("Show HN: AI"), url |-> "https://a.example/1",
       summary |-> JInt(5), points |-> JInt(5), created_at |-> <<2025, 1, 2>>,
       source |-> JStr("hacker_news"), type |-> JStr("news"),
       image |-> JStr(ImageUrl("https://a.example/og", ".png"))],
      [title |-> JStr("AI"), url |-> "https://b.example/2",
       summary |-> JInt(2), points |-> JInt(2), created_at |-> <<2025, 1, 1>>,
       source |-> JStr("hacker_news"), type |-> JStr("news"), image |-> JNull]>>

ArxivPapers ==
    <<[title |-> JStr("paper"), url |-> "https://arxiv.org/abs/2501.00001v1",
       arxiv_id |-> JStr("2501.00001v1"), summary |-> JStr("abstract"),
       authors |-> JStr("A, B"), published |-> JStr("2025-01-01"),
       source |-> JStr("arxiv"), type |-> JStr("paper"),
       images |-> JList(<<ImageUrl("https://arxiv.org/html/2501.00001v1/x1", "")>>)]>>

\* the custom source reports the page Hacker News links to
CustomNews ==
    <<[title |-> JStr("AI news"), url |-> "https://a.example/1",
       summary |-> JStr("text"), source |-> JStr("custom"), type |-> JStr("news"),
       image |-> JStr(EmptyUrl), created_at |-> <<2025, 1, 3>>]>>

DomesticNews ==
    <<[title |-> JStr("AI title one"), url |-> "https://36kr.com/p/1",
       summary |-> JStr(""), source |-> JStr("36kr AI"), type |-> JStr("news"),
       image |-> JStr(EmptyUrl), created_at |-> <<2025, 1, 3>>]>>

SourceReplies(failures, lists) ==
    {[status |-> f] : f \in failures}
    \cup {[status |-> "ok", entries |-> l] : l \in lists}

\* the same two stories, the page of the second one naming an og:image too
HnNewsWithImages ==
    [HnNews EXCEPT ![2]["image"] = JStr(ImageUrl("https://b.example/og", ".png"))]

HnWorld ==
    SourceReplies({"Timeout", "JSONDecodeError"},
                  {<<>>, SubSeq(HnNews, 1, 1), HnNews, HnNewsWithImages})
ArxivWorld == SourceReplies({"HTTPError"}, {ArxivPapers})
CustomWorld == SourceReplies({"Timeout"}, {CustomNews})
DomesticWorld == SourceReplies({"ConnectionError"}, {DomesticNews})

MainImageUrls ==
    {ImageUrl("https://a.example/og", ".png"),
     ImageUrl("https://b.example/og", ".png"),
     ImageUrl("https://arxiv.org/html/2501.00001v1/x1", "")}

MainImageResponses ==
    {[outcome |-> "Timeout"],
     [outcome |-> "ok", status |-> 404, content |-> <<4, 0, 4>>],
     [outcome |-> "ok", status |-> 200, content |-> <<2, 3>>]}

MainLlm ==
    {[outcome |-> "ok", choices |-> "one", content |-> JStr("# AI daily")],
     [outcome |-> "AuthenticationError"]}

\* --output: the default name, a name without '.json', and a path with
\* '.json' in a directory name too
OutputPaths ==
    {<<"ai_daily_news", ".json">>, <<"report", ".txt">>,
     <<"runs", ".json", ".d", "/", "news", ".json">>}

\* what is not used by a run is left at one value
Unused(S) == CHOOSE x \in S : TRUE

\* python fetch_ai_daily.py [--no-hacker-news] [--no-arxiv] [--custom-url URL]
\*     [--domestic-source KEY] [--output PATH] [--no-article] [--download-images]
Main ==
    /\ ~main_call.called
    /\ \E no_hacker_news, no_arxiv, custom_url, domestic_source,
          no_article, download_images \in BOOLEAN :
       \E output \in OutputPaths :
       \E hn \in IF no_hacker_news THEN {Unused(HnWorld)} ELSE HnWorld :
       \E arxiv \in IF no_arxiv THEN {Unused(ArxivWorld)} ELSE ArxivWorld :
       \E custom \in IF custom_url THEN CustomWorld ELSE {Unused(CustomWorld)} :
       \E domestic \in IF domestic_source THEN DomesticWorld
                       ELSE {Unused(DomesticWorld)} :
       \E llm \in IF no_article THEN {Unused(MainLlm)} ELSE MainLlm :
       \E images \in IF download_images THEN [MainImageUrls -> MainImageResponses]
                     ELSE {[u \in MainImageUrls |-> Unused(MainImageResponses)]} :
       LET args == [no_hacker_news |-> no_hacker_news, no_arxiv |-> no_arxiv,
                    custom_url |-> custom_url, domestic_source |-> domestic_source,
                    output |-> output, image_output_dir |-> "./images",
                    no_article |-> no_article, download_images |-> download_images,
                    date |-> "None", model |-> DEFAULT_MODEL, base_url |-> "None"]
           world == [hn |-> hn, arxiv |-> arxiv, custom |-> custom,
                     domestic |-> domestic, llm |-> llm, images |-> images]
       IN  \E r \in {main(args, world, files)} :
              /\ main_call' = [called |-> TRUE, args |-> args, world |-> world]
              /\ main_ret' = [exit_status |-> r.exit_status, ops |-> r.ops]
              /\ files' = r.files
              /\ UNCHANGED <<mergeVars, fetchVars, articleVars,
                             download_call, download_ret, cliVars>>

NextMain == Main

SpecMain == InitMain /\ [][NextMain]_vars

(***************************************************************************)
(* Claims about main (checked under SpecMain).                             *)
(***************************************************************************)
\* the entries a source contributes when its fetcher is not enabled or its
\* upstream call failed: none
Contribution(enabled, reply) ==
    IF enabled /\ reply.status = "ok" THEN reply.entries ELSE <<>>

\* an enabled fetcher's upstream call timed out or failed
SomeFetcherFailed ==
    /\ main_call.called
    /\ \/ ~main_call.args.no_hacker_news /\ main_call.world.hn.status # "ok"
       \/ ~main_call.args.no_arxiv /\ main_call.world.arxiv.status # "ok"
       \/ main_call.args.custom_url /\ main_call.world.custom.status # "ok"
       \/ main_call.args.domestic_source /\ main_call.world.domestic.status # "ok"

\* the merge of what the sources that answered contribute
MergeOfTheOthers ==
    merge_and_sort_entries(
        Contribution(~main_call.args.no_hacker_news, main_call.world.hn),
        Contribution(~main_call.args.no_arxiv, main_call.world.arxiv),
        SomeList(Contribution(main_call.args.custom_url, main_call.world.custom)),
        SomeList(Contribution(main_call.args.domestic_source,
                              main_call.world.domestic))).ret

JsonWrites == SelectSeq(main_ret.ops, LAMBDA o : o.op = "write_json")

\* C16: when an enabled fetcher's upstream call times out or fails, the run
\* still writes the JSON output document; its entries are the merge of the
\* other sources' entries and stats.total is their number.
C16_FailedSourceStillWritesDocument ==
    SomeFetcherFailed =>
        /\ Len(JsonWrites) = 1
        /\ JsonWrites[1].path = main_call.args.output
        /\ Len(JsonWrites[1].content.entries) = Len(MergeOfTheOthers)
        /\ \A i \in 1..Len(MergeOfTheOthers) :
              ObjectIsEntry(JsonWrites[1].content.entries[i],
                            AsJson(MergeOfTheOthers[i]))
        /\ JsonWrites[1].content.stats.total = Len(MergeOfTheOthers)

\* Hacker News times out; arXiv and the domestic source answer
C16_Witness ==
    /\ SomeFetcherFailed
    /\ ~main_call.args.no_hacker_news
    /\ main_call.world.hn.status = "Timeout"
    /\ ~main_call.args.no_arxiv /\ main_call.world.arxiv.status = "ok"
    /\ main_call.args.domestic_source /\ main_call.world.domestic.status = "ok"
    /\ Len(JsonWrites) = 1
    /\ JsonWrites[1].content.stats.total = 2

ArticleWrites == SelectSeq(main_ret.ops, LAMBDA o : o.op = "write_article")

\* C17: with article generation enabled, the article text is written
\* verbatim to a file other than the JSON output document, whatever --output
\* is, and after the run the JSON document of the run is still there,
\* unchanged.
C17_ArticleBesideDocument ==
    (main_call.called /\ ~main_call.args.no_article /\ Len(JsonWrites) = 1) =>
        /\ Len(ArticleWrites) = 1
        /\ main_ret.exit_status = 0
        /\ ArticleWrites[1].path # main_call.args.output
        /\ files[ArticleWrites[1].path] =
              [kind |-> "text", text |-> ArticleWrites[1].content]
        /\ main_call.args.output \in DOMAIN files
        /\ files[main_call.args.output] =
              [kind |-> "json", json |-> JsonWrites[1].content]

\* the files of the image directory after the run (it is empty before)
ImageFiles ==
    {path \in DOMAIN files :
        /\ Len(path) > 2
        /\ path[1] = main_call.args.image_output_dir
        /\ path[2] = "/"}

\* the numbers the run reported as downloaded images
ReportedImageCounts ==
    {main_ret.ops[k].n : k \in {i \in 1..Len(main_ret.ops) :
                                    main_ret.ops[i].op = "print_image_count"}}

\* C24: after the --download-images step, the reported number of downloaded
\* images is the number of image files the step left in the image directory,
\* no download having overwritten the file of an earlier one.
C24_ReportedCountIsFilesWritten ==
    (main_call.called /\ main_call.args.download_images) =>
        \A n \in ReportedImageCounts : n = Cardinality(ImageFiles)

\* the stage of the run an operation belongs to
OpRank(o) ==
    CASE o.op = "fetch" -> 1
      [] o.op = "merge" -> 2
      [] o.op \in {"image_get", "write_image", "print_image_count"} -> 3
      [] o.op = "write_json" -> 4
      [] o.op = "llm_request" -> 5
      [] o.op = "write_article" -> 6

SourceRank ==
    ("hacker_news" :> 1) @@ ("arxiv" :> 2) @@ ("custom" :> 3) @@ ("domestic" :> 4)

\* the sources the arguments of the run enable
EnabledSources ==
    (IF main_call.args.no_hacker_news THEN {} ELSE {"hacker_news"})
        \cup (IF main_call.args.no_arxiv THEN {} ELSE {"arxiv"})
        \cup (IF main_call.args.custom_url THEN {"custom"} ELSE {})
        \cup (IF main_call.args.domestic_source THEN {"domestic"} ELSE {})

Fetches == SelectSeq(main_ret.ops, LAMBDA o : o.op = "fetch")
ImageGets == SelectSeq(main_ret.ops, LAMBDA o : o.op = "image_get")

RECURSIVE ImagesInEntryOrder(_)
\* the image URLs of the entries, entry after entry
ImagesInEntryOrder(entries) ==
    IF entries = <<>> THEN <<>>
    ELSE EntryImageUrls(Head(entries)) \o ImagesInEntryOrder(Tail(entries))

InitCli ==
    MergeIdle /\ FetchIdle /\ ArticleIdle /\ DownloadIdle /\ MainIdle /\ CliIdle

\* an argument or environment variable: not given, empty, or a value
OptionalTexts == {"None", "", "secret"}

LlmAnswers ==
    {[outcome |-> "AuthenticationError"]}
    \cup {[outcome |-> "ok",
           result |-> [whole |-> "(fence)json {..} (fence)", inner |-> "{..}",
                       valid_json |-> TRUE]],
          [outcome |-> "ok",
           result |-> [whole |-> "plain text", inner |-> "plain text",
                       valid_json |-> FALSE]]}

\* python call_llm.py --base_url .. --model .. --prompt .. --output ..
RunCallLlm ==
    /\ cli_call.script = "none"
    /\ \E api_key, ark, openai \in OptionalTexts :
       \E format \in {"json", "markdown"} :
       \E llm \in LlmAnswers :
       LET args == [api_key |-> api_key, format |-> format,
                    base_url |-> "https://llm.example/v3", model |-> "deepseek-chat"]
           env == [ARK_API_KEY |-> ark, OPENAI_API_KEY |-> openai]
       IN  /\ cli_call' = [script |-> "call_llm", args |-> args, env |-> env,
                           llm |-> llm]
           /\ cli_ret' = call_llm_main(args, env, llm)
           /\ UNCHANGED <<mergeVars, fetchVars, articleVars, downloadVars, mainVars>>

Word(w) == [w |-> w]
DateLiteral(y, m, d) == [y |-> y, m |-> m, d |-> d]

\* --start-date / --end-date: dates, relative dates, and texts that are
\* neither
DateTexts ==
    {<<DateLiteral(2025, 1, 15)>>, <<DateLiteral(2025, 2, 30)>>,
     <<DateLiteral(2025, 13, 1)>>,
     <<Word("7"), Word("days"), Word("ago")>>,
     <<Word("2"), Word("months"), Word("ago")>>,
     <<Word("days"), Word("ago")>>,
     <<Word("a"), Word("week"), Word("ago")>>,
     <<Word("yesterday")>>,
     <<Word("7"), Word("days")>>}

Repos == <<"a/ai", "b/llm">>

GithubAnswers ==
    {[outcome |-> "ConnectionError"]}
    \cup {[outcome |-> "ok", status |-> 403, api_error |-> TRUE, items |-> <<>>],
          [outcome |-> "ok", status |-> 200, api_error |-> TRUE, items |-> <<>>]}
    \cup {[outcome |-> "ok", status |-> 200, api_error |-> FALSE,
           items |-> SubSeq(Repos, 1, n)] : n \in 0..Len(Repos)}

\* python search_github_repos.py --start-date .. --end-date ..
RunSearchGithubRepos ==
    /\ cli_call.script = "none"
    /\ \E start_date, end_date \in DateTexts :
       \E token \in OptionalTexts :
       \E github \in GithubAnswers :
       LET args == [start_date |-> start_date, end_date |-> end_date]
           env == [COZE_GITHUB_PAT |-> token]
       IN  /\ cli_call' = [script |-> "search_github_repos", args |-> args,
                           env |-> env, github |-> github]
           /\ cli_ret' = search_github_repos_main(args, env, github)
           /\ UNCHANGED <<mergeVars, fetchVars, articleVars, downloadVars, mainVars>>

ProviderAnswers ==
    {[outcome |-> o] : o \in {"ok", "error", "unknown stock", "no rows"}}

\* python fetch_stock_data.py --stock_code .. [--token ..] [--use_akshare]
RunFetchStockData ==
    /\ cli_call.script = "none"
    /\ \E token \in OptionalTexts :
       \E use_akshare \in BOOLEAN :
       \E provider \in ProviderAnswers :
       LET args == [token |-> token, use_akshare |-> use_akshare]
       IN  /\ cli_call' = [script |-> "fetch_stock_data", args |-> args,
                           provider |-> provider]
           /\ cli_ret' = fetch_stock_data_main(args, provider)
           /\ UNCHANGED <<mergeVars, fetchVars, articleVars, downloadVars, mainVars>>

NextCli == RunCallLlm \/ RunSearchGithubRepos \/ RunFetchStockData

SpecCli == InitCli /\ [][NextCli]_vars

(***************************************************************************)
(* Claims about the command-line scripts (checked under SpecCli).          *)
(***************************************************************************)
Absent(text) == text \in {"None", ""}

\* a date text the script documents: YYYY-MM-DD naming a day of the
\* calendar, or "N days|weeks|months ago"
WellFormedDate(words) ==
    \/ /\ Len(words) = 1
       /\ "m" \in DOMAIN words[1]
       /\ words[1] \in {DateLiteral(2025, m, d) : m \in 1..12, d \in 1..28}
                           \cup {DateLiteral(2025, 1, d) : d \in 29..31}
    \/ /\ Len(words) = 3
       /\ words[1] \in {Word("0"), Word("2"), Word("7")}
       /\ words[2] \in {Word(u) : u \in {"day", "days", "week", "weeks",
                                          "month", "months"}}
       /\ words[3] = Word("ago")

\* the run lacks a required credential or has a malformed required argument
MissingOrMalformed ==
    \/ /\ cli_call.script = "call_llm"
       /\ Absent(cli_call.args.api_key)
       /\ Absent(cli_call.env.ARK_API_KEY)
       /\ Absent(cli_call.env.OPENAI_API_KEY)
    \/ /\ cli_call.script = "search_github_repos"
       /\ \/ ~WellFormedDate(cli_call.args.start_date)
          \/ ~WellFormedDate(cli_call.args.end_date)
          \/ Absent(cli_call.env.COZE_GITHUB_PAT)
    \/ /\ cli_call.script = "fetch_stock_data"
       /\ Absent(cli_call.args.token)
       /\ ~cli_call.args.use_akshare

\* C18: with a required credential missing or a required argument
\* malformed, the script exits with nonzero status and has issued no network
\* request.
C18_ExitsBeforeNetwork ==
    MissingOrMalformed => cli_ret.exit_status # 0 /\ cli_ret.requests = <<>>

\* search_github_repos.py with --end-date 2025-02-30, a token configured and
\* a GitHub that would have answered
C18_Witness ==
    /\ cli_call.script = "search_github_repos"
    /\ cli_call.args.start_date = <<DateLiteral(2025, 1, 15)>>
    /\ cli_call.args.end_date = <<DateLiteral(2025, 2, 30)>>
    /\ cli_call.env.COZE_GITHUB_PAT = "secret"
    /\ cli_call.github.outcome = "ok"
    /\ cli_ret.exit_status = 1
    /\ cli_ret.requests = <<>>


(***************************************************************************)
(* Calls of extract_arxiv_images and the HTML pages they read              *)
(* (SpecExtract).  A page is a run of figures, numbered as LaTeXML numbers *)
(* them, followed by at most one other <img>.                              *)
(***************************************************************************)
Img(src, width, height) ==
    [src |-> src, width |-> width, data_width |-> "absent",
     height |-> height, data_height |-> "absent"]

Relative(name) == UrlText("", Url("", "", FALSE, <<name>>))

FigureNames ==
    <<"x1.png", "x2.png", "x3.png", "x4.png", "x5.png", "x6.png", "x7.png">>

Figures(n) == [i \in 1..n |-> Img(Relative(FigureNames[i]), "640", "640")]

PaperId == "2501.00001v1"

DataRef == Url("data", "", FALSE, <<"image", "png;base64,AAAA">>)

\* the other <img> tags: embedded images, absolute and site-relative
\* references, icons, formulas, an <img> without src, and small or oddly
\* sized images
OtherImgs ==
    {Img(UrlText("", DataRef), "640", "640"),
     Img(UrlText("", [DataRef EXCEPT !.scheme = "DATA"]), "640", "640"),
     Img(UrlText(" ", DataRef), "640", "640"),
     Img(UrlText("", Url("https", "arxiv.org", TRUE, <<"html", PaperId, "x1.png">>)),
         "640", "640"),
     Img(UrlText("", Url("HTTPS", "arxiv.org", TRUE, <<"html", PaperId, "x1.png">>)),
         "640", "640"),
     Img(UrlText("", Url("", "cdn.example.org", TRUE, <<"fig.png">>)), "640", "640"),
     Img(UrlText("", Url("", "icons.example.org", TRUE, <<"fig.png">>)), "640", "640"),
     Img(UrlText("", Url("", "", TRUE, <<"static", "logo.png">>)), "absent", "absent"),
     Img(UrlText("", Url("", "", FALSE, <<>>)), "absent", "absent"),
     Img(Relative("https-everywhere.png"), "640", "640"),
     Img(Relative("icon.png"), "640", "640"),
     Img(Relative("Icon.png"), "640", "640"),
     Img(Relative("silicon-stack.png"), "640", "640"),
     Img(Relative("formula1.svg"), "640", "640"),
     Img(Relative("context.png"), "640", "640"),
     Img(Relative("x1.png"), "640", "640"),
     Img(Relative("small.png"), "100", "100"),
     Img(Relative("small.png"), "640", "100"),
     Img(Relative("small.png"), "100", "absent"),
     Img(Relative("small.png"), "200", "200"),
     Img(Relative("small.png"), "100%", "640"),
     Img(Relative("small.png"), "0", "640"),
     [Img(Relative("small.png"), "absent", "absent") EXCEPT
        !.data_width = "100", !.data_height = "100"],
     [Img(Relative("small.png"), "0", "640") EXCEPT !.data_width = "auto"],
     [Img(Relative("small.png"), "640", "640") EXCEPT !.data_width = "auto"]}

\* an <img> without size attributes next to one whose size is small, or is
\* no number
MixedPages ==
    {<<Img(UrlText("", Url("", "", TRUE, <<"static", "logo.png">>)), "absent", "absent"),
       Img(Relative("small.png"), w, "640")>> : w \in {"100", "100%"}}

Pages ==
    {Figures(n) \o rest : n \in 0..MaxFigures, rest \in SeqsUpTo(OtherImgs, 1)}
        \cup MixedPages

HtmlReplies ==
    FailedReplies \cup {[status |-> "ok", imgs |-> page] : page \in Pages}

\* extract_arxiv_images(arxiv_id)
ExtractArxivImages ==
    /\ fetch_call.fn = "none"
    /\ \E reply \in HtmlReplies :
       \E ret \in extract_arxiv_images(PaperId, reply) :
        /\ fetch_call' = [fn |-> "extract_arxiv_images", arxiv_id |-> PaperId,
                          reply |-> reply]
        /\ fetch_ret' = ret
        /\ UNCHANGED <<mergeVars, articleVars, downloadVars, mainVars, cliVars>>

NextExtract == ExtractArxivImages

SpecExtract == InitFetch /\ [][NextExtract]_vars

(***************************************************************************)
(* Claims about extract_arxiv_images (checked under SpecExtract).          *)
(***************************************************************************)
ExtractCalled == fetch_call.fn = "extract_arxiv_images"

\* C19: extract_arxiv_images returns at most five URLs, and no URL twice.
C19_AtMostFiveDistinct ==
    ExtractCalled =>
        /\ Len(fetch_ret.entries) <= 5
        /\ \A i, j \in 1..Len(fetch_ret.entries) :
               fetch_ret.entries[i] = fetch_ret.entries[j] => i = j

\* a page with six usable images, the first of them referenced twice, from
\* which five are returned
C19_Witness ==
    /\ ExtractCalled
    /\ fetch_call.reply.status = "ok"
    /\ Len(fetch_call.reply.imgs) = 7
    /\ fetch_call.reply.imgs[7] = Img(Relative("x1.png"), "640", "640")
    /\ Len(fetch_ret.entries) = 5

\* a URL of scheme data: schemes are case-insensitive, and white space before
\* a URL is not part of it
IsDataUri(url) == Lower(url.ref.scheme) = "data"

\* the path of the URL contains "icon"
PathHasIcon(url) ==
    \E segment \in Range(url.ref.path) :
        segment \in DOMAIN KeywordsInside /\ "icon" \in KeywordsInside[segment]

\* C20: no URL returned by extract_arxiv_images is a data-URI, and none has
\* a path containing "icon".
C20_NoDataUriNoIcon ==
    ExtractCalled =>
        \A i \in 1..Len(fetch_ret.entries) :
            ~IsDataUri(fetch_ret.entries[i]) /\ ~PathHasIcon(fetch_ret.entries[i])

\* an absolute URL: it names its scheme, and an http(s) URL its host
IsAbsolute(url) ==
    /\ url.ref.scheme # ""
    /\ Lower(url.ref.scheme) \in {"http", "https"} => url.ref.netloc # ""

\* C21: every URL returned by extract_arxiv_images is an absolute URL, also
\* for a relative file name that begins with the letters "http".
C21_ReturnsAbsoluteUrls ==
    ExtractCalled =>
        \A i \in 1..Len(fetch_ret.entries) : IsAbsolute(fetch_ret.entries[i])

\* the size an <img> states for one side: the attribute, or its data-
\* variant when the attribute is absent
StatedSide(a, b) == IF a # "absent" THEN a ELSE b

\* the side is stated as a number of pixels
SideGiven(a, b) == StatedSide(a, b) \in DOMAIN Pixels \ {"absent"}

Unsized(img) ==
    /\ img.width = "absent" /\ img.data_width = "absent"
    /\ img.height = "absent" /\ img.data_height = "absent"

\* the URLs returned for the page of the call
Returned == Range(fetch_ret.entries)

\* C27: an <img> that states both width and height has its URL returned only
\* if both are at least 200; an <img> that states no size is not rejected for
\* its size.
C27_SizeFilter ==
    (ExtractCalled /\ fetch_call.reply.status = "ok") =>
        \A k \in 1..Len(fetch_call.reply.imgs) :
            LET img == fetch_call.reply.imgs[k]
                url == ImageUrlOf(HtmlUrl(fetch_call.arxiv_id), img.src)
            IN  /\ ( /\ SideGiven(img.width, img.data_width)
                     /\ SideGiven(img.height, img.data_height)
                     /\ url \in Returned )
                      => /\ Pixels[StatedSide(img.width, img.data_width)] >= 200
                         /\ Pixels[StatedSide(img.height, img.data_height)] >= 200
                /\ (Unsized(img) /\ Len(fetch_ret.entries) < 5) => url \in Returned

=============================================================================
